---- MODULE Spec2Model ----
(***************************************************************************)
(* Safe-route engine of SafeSphere: the /route/calculate handler           *)
(* (backend_api.py), the risk-graph searches (graph_utils.py over          *)
(* heatmap_adapter.py) and the threat-zone store (threat_zones.py).        *)
(*                                                                         *)
(* Geometry.  Every point of the model lies on one meridian, so a point is *)
(* its latitude, an integer number of grid steps of 0.0002 degree.  On a   *)
(* meridian the haversine distance is R * |dlat| and the planar            *)
(* approximation is 111.0 km/degree * |dlat|; both are kept, in            *)
(* millimetres, as integers.                                               *)
(*                                                                         *)
(* Risk.  Node and edge risks are integers in tenths (0..10 for 0.0..1.0); *)
(* an accumulated risk is kept in twentieths, so that the blend            *)
(* (edge + node) / 2 is exact.                                             *)
(***************************************************************************)
EXTENDS Integers, Sequences, FiniteSets, TLC

\* State of one /route/calculate request (backend_api.py)
VARIABLES rpc, routes, incidents, nearby_threats, safe_routes, unsafe_routes,
          response, via_requests, evaluated, cursor, last_via, safe_alt_seen,
          detour_alts

\* State of a HeatmapAdapter and of the search running on it
VARIABLES nodes, edges, loaded, query, result, fk

\* State of a ThreatZoneManager and of the last call on it
VARIABLES zones, zcall, load_raised, zresult

\* State of a HeatmapAdapter's position lookup and of the last
\* interpolation on it
VARIABLES hm_nodes, position_to_node_id, iq

\* A RoadGraph: its fields in one record
VARIABLES rg

\* The query of a second caller on the same HeatmapAdapter
VARIABLES cq

\* The last line_segment_intersects_circle call on points off one meridian
VARIABLES gq

routeVars == <<rpc, routes, incidents, nearby_threats, safe_routes,
               unsafe_routes, response, via_requests, evaluated, cursor,
               last_via, safe_alt_seen, detour_alts>>

graphVars == <<nodes, edges, loaded, query, result, fk>>

zoneVars == <<zones, zcall, load_raised, zresult>>

interpVars == <<hm_nodes, position_to_node_id, iq>>

roadVars == <<rg>>

concVars == <<cq>>

geoVars == <<gq>>

vars == <<routeVars, graphVars, zoneVars, interpVars, roadVars, concVars,
          geoVars>>

\* What the operations of one component leave alone
notRoute == <<geoVars, graphVars, zoneVars, interpVars, roadVars, concVars>>

notGraph == <<geoVars, routeVars, zoneVars, interpVars, roadVars, concVars>>

notZone == <<geoVars, routeVars, graphVars, interpVars, roadVars, concVars>>

notInterp == <<geoVars, routeVars, graphVars, zoneVars, roadVars, concVars>>

notRoad == <<geoVars, routeVars, graphVars, zoneVars, interpVars, concVars>>

notConc == <<routeVars, graphVars, zoneVars, interpVars, roadVars, geoVars>>

notGeo == <<routeVars, graphVars, zoneVars, interpVars, roadVars, concVars>>

\* ------------------------------------------------------------------------
\* Bounds of the model
\* ------------------------------------------------------------------------
MaxRoutes == 2

MaxIncidents == 2

\* ------------------------------------------------------------------------
\* Generic helpers
\* ------------------------------------------------------------------------
Abs(x) == IF x < 0 THEN -x ELSE x

Min2(a, b) == IF a <= b THEN a ELSE b

Max2(a, b) == IF a >= b THEN a ELSE b

Range(s) == {s[i] : i \in 1..Len(s)}

SeqsUpTo(S, n) == UNION {[1..k -> S] : k \in 0..n}

\* ------------------------------------------------------------------------
\* backend_api.py: geometry and constants
\* ------------------------------------------------------------------------
\* R = 6371.0 km: one grid step of 0.0002 degree of latitude is 22.239 m.
HAVERSINE_MM_PER_STEP == 22239

\* 111.0 km per degree of latitude: one grid step is 22.2 m.
PLANAR_MM_PER_STEP == 22200

\* margin = 0.04 degree = 200 grid steps.
MARGIN_STEPS == 200

\* buffer_km = 0.05 in _calculate_route_risk.
POINT_BUFFER_MM == 50000

\* safety_buffer = 0.05 in calculate_safe_route.
SAFETY_BUFFER_MM == 50000

\* "1.0 if >3km away".
FAR_M == 3000

\* max(0.1, ...) in thousandths.
MIN_SCORE_MILLI == 100

ThreatRadiiMm(level) ==
  CASE level = "CRITICAL" -> 1200000
    [] level = "HIGH" -> 1000000
    [] level = "MEDIUM" -> 600000
    [] level = "LOW" -> 300000
    [] OTHER -> 600000

DetourExtrasMm == <<200000, 500000, 1000000>>

Bearings == <<0, 45, 90, 135, 180, 225, 270, 315>>

Recommendations ==
  <<"Wait for threats to clear", "Choose a different destination",
    "Consider calling for assistance">>

HaversineMm(lat1, lat2) == HAVERSINE_MM_PER_STEP * Abs(lat2 - lat1)

\* _distance_point_to_segment on one meridian: dx = 0, dy = (lat2-lat1)*111.
DistancePointToSegmentMm(p, lat1, lat2) ==
  LET y1 == lat1 * PLANAR_MM_PER_STEP
      y2 == lat2 * PLANAR_MM_PER_STEP
      py == p * PLANAR_MM_PER_STEP
      dy == y2 - y1
  IN IF dy = 0 THEN Abs(py - y1)
     ELSE \* t = (py - y1) * dy / (dy * dy) clamped to [0, 1], compared in
          \* grid steps: the closest point is an end of the segment or py
          LET closest == IF (p - lat1) * (lat2 - lat1) <= 0 THEN y1
                         ELSE IF (p - lat1) * (lat2 - lat1)
                                   >= (lat2 - lat1) * (lat2 - lat1) THEN y2
                         ELSE py
          IN Abs(py - closest)

\* round(mm / 1e6 km, 3) in metres.
RoundToMetres(mm) == (mm + 500) \div 1000

\* ------------------------------------------------------------------------
\* backend_api.py: _calculate_route_risk (point-proximity policy)
\* ------------------------------------------------------------------------
\* Only the first coordinate of the route is compared with the incidents.
RiskPairsOfFirstVertex(coords, incs) ==
  LET usable == SelectSeq(incs, LAMBDA inc : inc.has_coords)
  IN [k \in 1..(Min2(Len(coords), 1) * Len(usable)) |->
        [lat |-> coords[1], inc |-> usable[k]]]

\* The (coordinate, incident) pairs in the order of the two nested loops;
\* incidents whose coordinates do not convert are skipped.
RiskPairs(coords, incs) ==
  LET usable == SelectSeq(incs, LAMBDA inc : inc.has_coords)
      n == Len(coords)
      m == Len(usable)
  IN [k \in 1..(n * m) |->
        [lat |-> coords[((k - 1) \div m) + 1],
         inc |-> usable[((k - 1) % m) + 1]]]

SafetyScoreMilli(closest_m) ==
  IF closest_m >= FAR_M THEN 1000
  ELSE Max2(MIN_SCORE_MILLI, (closest_m + 1) \div 3)

CalculateRouteRisk(coords, incs) ==
  IF coords = <<>>
  THEN [is_safe |-> TRUE, safety_score |-> 1000, reason |-> "no_coordinates",
        threat_id |-> 0, distance_mm |-> -1]
  ELSE
    LET pairs == RiskPairs(coords, incs)
        d(k) == HaversineMm(pairs[k].lat, pairs[k].inc.latitude)
        hits == {k \in 1..Len(pairs) : d(k) <= POINT_BUFFER_MM}
    IN IF hits # {}
       THEN LET k == CHOOSE h \in hits : \A o \in hits : h <= o
            IN [is_safe |-> FALSE, safety_score |-> 0,
                reason |-> "threat_intersection_point",
                threat_id |-> pairs[k].inc.incident_id, distance_mm |-> d(k)]
       ELSE IF Len(pairs) = 0
       THEN [is_safe |-> TRUE, safety_score |-> 1000, reason |-> "safe",
             threat_id |-> 0, distance_mm |-> -1]
       ELSE LET k == CHOOSE h \in 1..Len(pairs) :
                       /\ \A o \in 1..Len(pairs) : d(h) <= d(o)
                       /\ \A o \in 1..(h - 1) : d(o) > d(h)
                closest_m == RoundToMetres(d(k))
            IN [is_safe |-> TRUE, safety_score |-> SafetyScoreMilli(closest_m),
                reason |-> "safe", threat_id |-> pairs[k].inc.incident_id,
                distance_mm |-> d(k)]

\* ------------------------------------------------------------------------
\* backend_api.py: calculate_safe_route (POST /route/calculate)
\* ------------------------------------------------------------------------
\* The request: start and end on the meridian, in grid steps.
Request == [start_lat |-> 0, end_lat |-> 100]

\* Polylines the routing provider may return ([] = a geometry without
\* coordinates); 48 is 44 m from latitude 50, 30 is 445 m from it.
Geometries == {<<>>, <<0, 48, 100>>, <<0, 30, 100>>}

\* Incident rows of the database: with or without coordinates. 25 is 111 m
\* from the vertex 30 and 511 m from the vertex 48; 400 is outside the
\* bounding window of the request.
IncidentChoices ==
  {[has_coords |-> TRUE, latitude |-> 50, threat_level |-> "CRITICAL"],
   [has_coords |-> TRUE, latitude |-> 25, threat_level |-> "LOW"],
   [has_coords |-> TRUE, latitude |-> 400, threat_level |-> "HIGH"],
   [has_coords |-> FALSE, latitude |-> 0, threat_level |-> "MEDIUM"]}

\* What the provider returns: each route with its geometry and metadata
\* (the duration tells two candidates of equal geometry apart).
ProviderRoutes(gs) == [i \in 1..Len(gs) |-> [geometry |-> gs[i], duration |-> i]]

IncidentRows(cs) ==
  [i \in 1..Len(cs) |->
     [incident_id |-> i, has_coords |-> cs[i].has_coords,
      latitude |-> cs[i].latitude, threat_level |-> cs[i].threat_level]]

NoResponse == [kind |-> "none"]

\* raise HTTPException(status_code=404, detail="No routes found")
NoRoutesRaised == [status |-> 404, detail |-> "No routes found"]

\* except Exception as e: raise HTTPException(status_code=500, detail=str(e))
ExceptClause(e) == [kind |-> "http_error", status |-> 500, raised |-> e]

\* Step 3: the incidents inside the bounding window of start and end.
NearbyThreats(incs) ==
  LET min_lat == Min2(Request.start_lat, Request.end_lat) - MARGIN_STEPS
      max_lat == Max2(Request.start_lat, Request.end_lat) + MARGIN_STEPS
  IN SelectSeq(incs, LAMBDA inc :
       inc.has_coords /\ min_lat <= inc.latitude /\ inc.latitude <= max_lat)

\* Step 4: route_data of one provider route.
RouteData(route, threats) ==
  LET r == CalculateRouteRisk(route.geometry, threats)
  IN [geometry |-> route.geometry, duration |-> route.duration,
      is_safe |-> r.is_safe, safety_score |-> r.safety_score,
      threat_info |-> r]

\* The safe routes left in provider order (no sort).
KeepProviderOrder(s) == s

\* list.sort(key=safety_score, reverse=True): stable, equal scores keep
\* their original order.
RECURSIVE SortByScoreDesc(_)
SortByScoreDesc(s) ==
  IF s = <<>> THEN <<>>
  ELSE LET rest == SortByScoreDesc(SubSeq(s, 1, Len(s) - 1))
           x == s[Len(s)]
           before == SelectSeq(rest, LAMBDA y : y.safety_score >= x.safety_score)
           after == SelectSeq(rest, LAMBDA y : y.safety_score < x.safety_score)
       IN before \o <<x>> \o after

SuccessResponse(best, mode, analyzed, safe_count, threats) ==
  [kind |-> "ok", success |-> TRUE, routing_mode |-> mode,
   route |-> [geometry |-> best.geometry, duration |-> best.duration,
              is_safe |-> TRUE, safety_score |-> best.safety_score],
   routes_analyzed |-> analyzed, safe_routes_found |-> safe_count,
   threat_details |-> best.threat_info, threats_near_route |-> threats]

NoSafeRoutesResponse(threats, unsafe) ==
  [kind |-> "no_safe", success |-> FALSE, error |-> "NO_SAFE_ROUTES",
   threats_blocking |-> threats, unsafe_routes_count |-> Len(unsafe),
   recommendations |-> Recommendations]

\* The detour search space in loop order: threat, extra clearance, bearing.
DetourSpace(threats) == Len(threats) * Len(DetourExtrasMm) * Len(Bearings)

\* The same waypoints with the bearing as the outermost loop.
ViaWaypointBearingFirst(threats, c) ==
  LET per == Len(threats) * Len(DetourExtrasMm)
      b == ((c - 1) \div per) + 1
      t == (((c - 1) % per) \div Len(DetourExtrasMm)) + 1
      x == ((c - 1) % Len(DetourExtrasMm)) + 1
  IN [threat |-> threats[t].incident_id,
      offset_mm |-> ThreatRadiiMm(threats[t].threat_level) + SAFETY_BUFFER_MM
                    + DetourExtrasMm[x],
      bearing |-> Bearings[b]]

\* The waypoint of the c-th pass of the three nested loops.
ViaWaypoint(threats, c) ==
  LET per == Len(DetourExtrasMm) * Len(Bearings)
      t == ((c - 1) \div per) + 1
      x == (((c - 1) % per) \div Len(Bearings)) + 1
      b == ((c - 1) % Len(Bearings)) + 1
  IN [threat |-> threats[t].incident_id,
      offset_mm |-> ThreatRadiiMm(threats[t].threat_level) + SAFETY_BUFFER_MM
                    + DetourExtrasMm[x],
      bearing |-> Bearings[b]]

\* The first alternative of the via request, whatever its evaluation.
FirstAlt(alts, threats) == IF alts = <<>> THEN 0 ELSE 1

\* for alt in alt_routes: the first alternative evaluated safe, or 0.
FirstSafeAlt(alts, threats) ==
  LET ok == {i \in 1..Len(alts) :
               CalculateRouteRisk(alts[i].geometry, threats).is_safe}
  IN IF ok = {} THEN 0 ELSE CHOOSE i \in ok : \A j \in ok : i <= j

RouteInit ==
  /\ rpc = "start"
  /\ routes = <<>>
  /\ incidents = <<>>
  /\ nearby_threats = <<>>
  /\ safe_routes = <<>>
  /\ unsafe_routes = <<>>
  /\ response = NoResponse
  /\ via_requests = 0
  /\ evaluated = FALSE
  /\ cursor = 0
  /\ last_via = [threat |-> 0, offset_mm |-> 0, bearing |-> 0]
  /\ safe_alt_seen = FALSE
  /\ detour_alts = <<>>

\* Step 1: routes = _get_osrm_routes(...); no routes raises inside the try.
GetRoutes ==
  /\ rpc = "start"
  /\ \E gs \in SeqsUpTo(Geometries, MaxRoutes) :
       /\ routes' = ProviderRoutes(gs)
       /\ IF gs = <<>>
          THEN /\ rpc' = "done"
               /\ response' = ExceptClause(NoRoutesRaised)
          ELSE /\ rpc' = "evaluate"
               /\ UNCHANGED response
  /\ UNCHANGED <<incidents, nearby_threats, safe_routes, unsafe_routes,
                 via_requests, evaluated, cursor, last_via, safe_alt_seen,
                 detour_alts>>
  /\ UNCHANGED notRoute

\* Steps 2-6: load the incidents, keep the nearby ones, evaluate and sort
\* the candidates, and answer when one is safe.
EvaluateRoutes ==
  /\ rpc = "evaluate"
  /\ \E cs \in SeqsUpTo(IncidentChoices, MaxIncidents) :
       LET incs == IncidentRows(cs)
           threats == NearbyThreats(incs)
           data == [i \in 1..Len(routes) |-> RouteData(routes[i], threats)]
           safe == SortByScoreDesc(SelectSeq(data, LAMBDA r : r.is_safe))
           unsafe == SelectSeq(data, LAMBDA r : ~r.is_safe)
       IN /\ incidents' = incs
          /\ nearby_threats' = threats
          /\ safe_routes' = safe
          /\ unsafe_routes' = unsafe
          /\ evaluated' = TRUE
          /\ IF safe # <<>>
             THEN /\ response' = SuccessResponse(safe[1], "SAFE", Len(routes),
                                                 Len(safe), threats)
                  /\ rpc' = "done"
                  /\ cursor' = 0
             ELSE IF DetourSpace(threats) = 0
             THEN /\ response' = NoSafeRoutesResponse(threats, unsafe)
                  /\ rpc' = "done"
                  /\ cursor' = 0
             ELSE /\ UNCHANGED response
                  /\ rpc' = "detour"
                  /\ cursor' = 1
  /\ UNCHANGED <<routes, via_requests, last_via, safe_alt_seen, detour_alts>>
  /\ UNCHANGED notRoute

\* One pass of the innermost detour loop: request the route via the next
\* waypoint and evaluate its alternatives; stop at the first safe one; after
\* the last waypoint answer NO_SAFE_ROUTES.
DetourRequest ==
  /\ rpc = "detour"
  /\ \E gs \in SeqsUpTo(Geometries, MaxRoutes) :
       LET alts == ProviderRoutes(gs)
           hit == FirstSafeAlt(alts, nearby_threats)
       IN /\ last_via' = ViaWaypoint(nearby_threats, cursor)
          /\ via_requests' = via_requests + 1
          /\ evaluated' = (evaluated \/ alts # <<>>)
          /\ safe_alt_seen' = (hit # 0)
          \* is_safe_alt of the alternatives evaluated at the waypoint
          \* where detour_found is set (the loop breaks at the first safe)
          /\ detour_alts' = IF hit = 0 THEN <<>>
                            ELSE [i \in 1..hit |->
                                    CalculateRouteRisk(alts[i].geometry,
                                                       nearby_threats).is_safe]
          /\ IF hit # 0
             THEN /\ response' = SuccessResponse(
                                   RouteData(alts[hit], nearby_threats),
                                   "SAFE_VIA_DETOUR", Len(routes), 1,
                                   nearby_threats)
                  /\ rpc' = "done"
                  /\ UNCHANGED cursor
             ELSE IF cursor = DetourSpace(nearby_threats)
             THEN /\ response' = NoSafeRoutesResponse(nearby_threats,
                                                      unsafe_routes)
                  /\ rpc' = "done"
                  /\ UNCHANGED cursor
             ELSE /\ UNCHANGED response
                  /\ UNCHANGED rpc
                  /\ cursor' = cursor + 1
  /\ UNCHANGED <<routes, incidents, nearby_threats, safe_routes, unsafe_routes>>
  /\ UNCHANGED notRoute

RouteNext == GetRoutes \/ EvaluateRoutes \/ DetourRequest

\* ------------------------------------------------------------------------
\* Claims about calculate_safe_route
\* ------------------------------------------------------------------------
\* A segment of the polyline comes within the threat circle (radius by
\* level plus the safety buffer) of one of the threats.
RouteCrossesThreatCircle(coords, threats) ==
  \E i \in 1..(Len(coords) - 1) : \E t \in 1..Len(threats) :
     DistancePointToSegmentMm(threats[t].latitude, coords[i], coords[i + 1])
       <= ThreatRadiiMm(threats[t].threat_level) + SAFETY_BUFFER_MM

CandidateSafe(i) ==
  CalculateRouteRisk(routes[i].geometry, nearby_threats).is_safe

CandidateScore(i) ==
  CalculateRouteRisk(routes[i].geometry, nearby_threats).safety_score

\* C1 (as claimed): a successful result (SAFE or SAFE_VIA_DETOUR) never
\* carries a route with a segment inside the threat circle of a nearby
\* incident; a request with candidates ends with such a route or with
\* NO_SAFE_ROUTES.
C1_NoRouteThroughThreatCircle ==
  (rpc = "done" /\ routes # <<>>) =>
     /\ response.kind \in {"ok", "no_safe"}
     /\ response.kind = "ok" =>
          ~RouteCrossesThreatCircle(response.route.geometry, nearby_threats)

\* C2: the chosen route was evaluated safe by _calculate_route_risk, and
\* with no candidate and no detour alternative evaluated safe the result is
\* the NO_SAFE_ROUTES failure with the blocking threats and recommendations.
C2_NeverReturnsVetoedRoute ==
  (rpc = "done" /\ routes # <<>>) =>
     /\ response.kind = "ok" =>
          CalculateRouteRisk(response.route.geometry, nearby_threats).is_safe
     /\ ((\A i \in 1..Len(routes) : ~CandidateSafe(i)) /\ ~safe_alt_seen) =>
          /\ response.kind = "no_safe"
          /\ response.success = FALSE
          /\ response.error = "NO_SAFE_ROUTES"
          /\ response.threats_blocking = nearby_threats
          /\ response.recommendations = Recommendations

C2_Witness ==
  /\ rpc = "done"
  /\ response.kind = "no_safe"
  /\ unsafe_routes # <<>>
  /\ via_requests = DetourSpace(nearby_threats)
  /\ via_requests > 0

\* C4: via-waypoint requests are issued only when no original candidate
\* was evaluated safe; with a safe candidate the mode is SAFE and the chosen
\* route is the safe candidate of highest score, the earliest among equals.
C4_DetourOnlyWhenNoSafeCandidate ==
  /\ via_requests > 0 => \A i \in 1..Len(routes) : ~CandidateSafe(i)
  /\ (rpc = "done" /\ \E i \in 1..Len(routes) : CandidateSafe(i)) =>
        /\ response.kind = "ok"
        /\ response.routing_mode = "SAFE"
        /\ via_requests = 0
        /\ \E i \in 1..Len(routes) :
              /\ CandidateSafe(i)
              /\ response.route.geometry = routes[i].geometry
              /\ response.route.duration = routes[i].duration
              /\ response.route.safety_score = CandidateScore(i)
              /\ \A j \in 1..Len(routes) : CandidateSafe(j) =>
                    \/ CandidateScore(j) < CandidateScore(i)
                    \/ (CandidateScore(j) = CandidateScore(i) /\ j >= i)

C4_Witness ==
  /\ rpc = "done"
  /\ response.kind = "ok"
  /\ response.routing_mode = "SAFE"
  /\ \E i, j \in 1..Len(routes) :
        /\ i < j
        /\ CandidateSafe(i) /\ CandidateSafe(j)
        /\ CandidateScore(i) = CandidateScore(j)
        /\ routes[i].geometry # routes[j].geometry
        /\ response.route.duration = i

\* C5 (as claimed): with zero candidates from the provider the caller gets
\* the 404 "No routes found" error, nothing is evaluated and no via request
\* is issued.
C5_NoRoutesIs404 ==
  (rpc = "done" /\ routes = <<>>) =>
     /\ response.kind = "http_error"
     /\ response.status = 404
     /\ evaluated = FALSE
     /\ via_requests = 0

\* ------------------------------------------------------------------------
\* heatmap_adapter.py: HeatmapAdapter (nodes and edges of the risk graph)
\* ------------------------------------------------------------------------
\* nodes: node id -> [risk]; edges: the edge dict in insertion order, each
\* entry [id, from_node, to_node, risk].
\* max_iterations: int = 1000
MAX_ITERATIONS == 1000

\* self.nodes[node_id].get("risk", 0.0), or None (-1) for an unknown node.
GetNodeRisk(ns, node_id) ==
  IF node_id \in DOMAIN ns THEN ns[node_id].risk ELSE -1

\* The node risk without the "or 0.0" default: None (-1) stays None
NodeRiskOrNone(ns, node_id) == GetNodeRisk(ns, node_id)

\* adapter.get_node_risk(next_node) or 0.0
NodeRiskOrZero(ns, node_id) ==
  IF GetNodeRisk(ns, node_id) = -1 THEN 0 ELSE GetNodeRisk(ns, node_id)

\* get_connected_nodes: one (to_node, edge_risk) entry per edge leaving
\* node_id, in dict order.  `via` remembers which edge the entry came from.
GetConnectedNodesBothWays(es, node_id) ==
  LET out == SelectSeq(es, LAMBDA e : e.from_node = node_id \/ e.to_node = node_id)
  IN [i \in 1..Len(out) |->
        [to_node |-> IF out[i].from_node = node_id THEN out[i].to_node
                     ELSE out[i].from_node,
         edge_risk |-> out[i].risk, via |-> out[i].id]]

GetConnectedNodes(es, node_id) ==
  LET out == SelectSeq(es, LAMBDA e : e.from_node = node_id)
  IN [i \in 1..Len(out) |->
        [to_node |-> out[i].to_node, edge_risk |-> out[i].risk,
         via |-> out[i].id]]

\* for eid, edata in adapter.edges.items(): the first edge from -> to.
FirstEdgeId(es, from_node, to_node) ==
  LET hits == {i \in 1..Len(es) :
                 es[i].from_node = from_node /\ es[i].to_node = to_node}
  IN IF hits = {} THEN 0
     ELSE es[CHOOSE i \in hits : \A j \in hits : i <= j].id

\* ------------------------------------------------------------------------
\* graph_utils.py: GraphUtils.dijkstra_safest_path
\* ------------------------------------------------------------------------
\* Python's list comparison of two node paths.
RECURSIVE PathLess(_, _)
PathLess(p, q) ==
  IF p = <<>> THEN q # <<>>
  ELSE IF q = <<>> THEN FALSE
  ELSE IF p[1] # q[1] THEN p[1] < q[1]
  ELSE PathLess(Tail(p), Tail(q))

\* The heap orders its tuples (accumulated_risk, current_node, path, ...).
EntryLess(a, b) ==
  \/ a.risk < b.risk
  \/ a.risk = b.risk /\ a.node < b.node
  \/ a.risk = b.risk /\ a.node = b.node /\ PathLess(a.path, b.path)

\* heappop: the least entry; of entries equal in risk, node and path (they
\* are then equal in every field the caller sees) the one pushed first.
HeapMinIndex(heap) ==
  CHOOSE i \in 1..Len(heap) :
    /\ \A j \in 1..Len(heap) : ~EntryLess(heap[j], heap[i])
    /\ \A j \in 1..(i - 1) : EntryLess(heap[i], heap[j])

RemoveAt(s, i) == SubSeq(s, 1, i - 1) \o SubSeq(s, i + 1, Len(s))

\* The entries pushed for the neighbours of the popped entry `cur`.
PushedEntries(es, ns, cur, visited) ==
  LET nbrs == SelectSeq(GetConnectedNodes(es, cur.node),
                        LAMBDA n : n.to_node \notin visited)
  IN [i \in 1..Len(nbrs) |->
        LET segment_risk == nbrs[i].edge_risk + NodeRiskOrZero(ns, nbrs[i].to_node)
        IN [risk |-> cur.risk + segment_risk,
            node |-> nbrs[i].to_node,
            path |-> Append(cur.path, nbrs[i].to_node),
            segments |-> Append(cur.segments,
                           [from_node |-> cur.node, to_node |-> nbrs[i].to_node,
                            edge_id |-> FirstEdgeId(es, cur.node, nbrs[i].to_node),
                            risk |-> segment_risk]),
            used |-> Append(cur.used, nbrs[i].via)]]

NoPath(pops) ==
  [found |-> FALSE, path |-> <<>>, total_risk |-> 0, segments |-> <<>>,
   used |-> <<>>, pops |-> pops]

\* A loop test that lets one more pop through
LoopContinuesInclusive(heap, iterations, max_iterations) ==
  heap # <<>> /\ iterations <= max_iterations

\* while heap and iterations < max_iterations
LoopContinues(heap, iterations, max_iterations) ==
  heap # <<>> /\ iterations < max_iterations

\* while heap and iterations < max_iterations: ...
RECURSIVE DijkstraLoop(_, _, _, _, _, _, _)
DijkstraLoop(es, ns, end_node, heap, visited, iterations, max_iterations) ==
  IF ~LoopContinues(heap, iterations, max_iterations) THEN NoPath(iterations)
  ELSE
    LET i == HeapMinIndex(heap)
        cur == heap[i]
        rest == RemoveAt(heap, i)
    IN IF cur.node \in visited
       THEN DijkstraLoop(es, ns, end_node, rest, visited, iterations + 1,
                         max_iterations)
       ELSE IF cur.node = end_node
       THEN [found |-> TRUE, path |-> cur.path, total_risk |-> cur.risk,
             segments |-> cur.segments, used |-> cur.used,
             pops |-> iterations + 1]
       ELSE DijkstraLoop(es, ns, end_node,
                         rest \o PushedEntries(es, ns, cur, visited \cup {cur.node}),
                         visited \cup {cur.node}, iterations + 1, max_iterations)

StartHeap(start_node) ==
  <<[risk |-> 0, node |-> start_node, path |-> <<start_node>>,
     segments |-> <<>>, used |-> <<>>]>>

DijkstraWithoutSelfCheck(es, ns, start_node, end_node, max_iterations) ==
  DijkstraLoop(es, ns, end_node, StartHeap(start_node), {}, 0, max_iterations)

\* dijkstra_safest_path(adapter, start_node, end_node, max_iterations).
\* Risks are in twentieths, so round(current_risk, 3) changes nothing.
DijkstraSafestPath(es, ns, start_node, end_node, max_iterations) ==
  IF start_node = end_node
  THEN [found |-> TRUE, path |-> <<start_node>>, total_risk |-> 0,
        segments |-> <<>>, used |-> <<>>, pops |-> 0]
  ELSE DijkstraLoop(es, ns, end_node, StartHeap(start_node), {}, 0,
                    max_iterations)

\* ------------------------------------------------------------------------
\* graph_utils.py: GraphUtils.find_k_safest_paths, one step per phase of
\* the loop body
\* ------------------------------------------------------------------------
\* The orders in which a Python set of edge ids may be iterated.
Orders(S) ==
  {o \in [1..Cardinality(S) -> S] : \A a, b \in DOMAIN o : o[a] = o[b] => a = b}

EdgeById(es, id) == es[CHOOSE i \in 1..Len(es) : es[i].id = id]

\* del adapter.edges[edge_id] for the blocked ids
RemoveEdges(es, ids) == SelectSeq(es, LAMBDA e : e.id \notin ids)

RestoreNothing(es, original_edges) == es

\* A restore that loses the first removed edge
RestoreAllButFirst(es, original_edges) ==
  IF original_edges = <<>> THEN es ELSE es \o Tail(original_edges)

\* adapter.edges[edge_id] = edge_data: restored entries go to the end of
\* the dict
RestoreEdges(es, original_edges) == es \o original_edges

\* "Block edges used in this path": per segment, the first edge from -> to.
EdgesToBlock(es, segments) ==
  {FirstEdgeId(es, segments[i].from_node, segments[i].to_node) :
     i \in 1..Len(segments)} \ {0}

\* sorted(paths, key=lambda x: x[1]): stable, ascending total risk.
RECURSIVE SortByRiskAsc(_)
SortByRiskAsc(s) ==
  IF s = <<>> THEN <<>>
  ELSE LET rest == SortByRiskAsc(SubSeq(s, 1, Len(s) - 1))
           x == s[Len(s)]
           before == SelectSeq(rest, LAMBDA y : y.total_risk <= x.total_risk)
           after == SelectSeq(rest, LAMBDA y : y.total_risk > x.total_risk)
       IN before \o <<x>> \o after

FkIdle ==
  [pc |-> "idle", i |-> 0, paths |-> <<>>, blocked_edges |-> {},
   original_edges |-> <<>>, res |-> NoPath(0), edges0 |-> <<>>]

NoQuery == [op |-> "none", start_node |-> 0, end_node |-> 0, k |-> 0]

\* ------------------------------------------------------------------------
\* Inputs of the graph model
\* ------------------------------------------------------------------------
MaxEdges == 3

MaxK == 2

\* Edge records a heatmap may hold: risk 0.0 or 0.8 between nodes 1..3;
\* the same ordered pair may occur several times (parallel edges).
EdgeChoices ==
  {[from_node |-> a, to_node |-> b, risk |-> r] :
     a \in {1, 2, 3}, b \in {1, 2, 3}, r \in {0, 8}} \
  {e \in [from_node : {1, 2, 3}, to_node : {1, 2, 3}, risk : {0, 8}] :
     e.from_node = e.to_node}

\* Node tables: node 3 has no risk record in the second one.
NodeTables ==
  {(1 :> [risk |-> 4]) @@ (2 :> [risk |-> 2]) @@ (3 :> [risk |-> 6]),
   (1 :> [risk |-> 4]) @@ (2 :> [risk |-> 2])}

\* (start, end) of the single-path queries; 4 is no node of any heatmap.
QueryPairs == {<<1, 3>>, <<3, 1>>, <<2, 2>>, <<4, 4>>, <<4, 3>>}

HeatmapEdges(cs) ==
  [i \in 1..Len(cs) |->
     [id |-> i, from_node |-> cs[i].from_node, to_node |-> cs[i].to_node,
      risk |-> cs[i].risk]]

GraphInit ==
  /\ nodes = << >>
  /\ edges = << >>
  /\ loaded = FALSE
  /\ query = NoQuery
  /\ result = << >>
  /\ fk = FkIdle

\* load_heatmap(heatmap_data)
LoadHeatmap ==
  /\ ~loaded
  /\ \E cs \in SeqsUpTo(EdgeChoices, MaxEdges), ns \in NodeTables :
       /\ edges' = HeatmapEdges(cs)
       /\ nodes' = ns
  /\ loaded' = TRUE
  /\ UNCHANGED <<query, result, fk>>
  /\ UNCHANGED notGraph

\* GraphUtils.dijkstra_safest_path(adapter, start, end)
DijkstraQuery ==
  /\ loaded
  /\ query.op = "none"
  /\ \E q \in QueryPairs :
       /\ query' = [op |-> "dijkstra", start_node |-> q[1], end_node |-> q[2],
                    k |-> 0]
       /\ result' = <<DijkstraSafestPath(edges, nodes, q[1], q[2],
                                         MAX_ITERATIONS)>>
  /\ UNCHANGED <<nodes, edges, loaded, fk>>
  /\ UNCHANGED notGraph

\* max_iterations of the capped queries
IterationCaps == {2, 3}

\* GraphUtils.dijkstra_safest_path(adapter, 1, 3, max_iterations=cap)
DijkstraCapped ==
  /\ loaded
  /\ query.op = "none"
  /\ \E cap \in IterationCaps :
       /\ query' = [op |-> "capped", start_node |-> 1, end_node |-> 3, k |-> 0]
       /\ result' = <<[max_iterations |-> cap,
                       res |-> DijkstraSafestPath(edges, nodes, 1, 3, cap)]>>
  /\ UNCHANGED <<nodes, edges, loaded, fk>>
  /\ UNCHANGED notGraph

\* GraphUtils.find_k_safest_paths(adapter, start, end, k): entry
FindKStart ==
  /\ loaded
  /\ query.op = "none"
  /\ \E k \in 1..MaxK :
       query' = [op |-> "find_k", start_node |-> 1, end_node |-> 3, k |-> k]
  /\ fk' = [FkIdle EXCEPT !.pc = "block", !.edges0 = edges]
  /\ UNCHANGED <<nodes, edges, loaded, result>>
  /\ UNCHANGED notGraph

\* "Temporarily block edges from previously found paths"
FindKBlock ==
  /\ fk.pc = "block"
  /\ \E o \in Orders({id \in fk.blocked_edges : \E j \in 1..Len(edges) : edges[j].id = id}) :
       /\ fk' = [fk EXCEPT !.pc = "search",
                           !.original_edges = [j \in 1..Len(o) |-> EdgeById(edges, o[j])]]
       /\ edges' = RemoveEdges(edges, Range(o))
  /\ UNCHANGED <<nodes, loaded, query, result>>
  /\ UNCHANGED notGraph

\* "Find safest path in modified graph"
FindKSearch ==
  /\ fk.pc = "search"
  /\ fk' = [fk EXCEPT !.pc = "restore",
                      !.res = DijkstraSafestPath(edges, nodes, query.start_node,
                                                 query.end_node, MAX_ITERATIONS)]
  /\ UNCHANGED <<nodes, edges, loaded, query, result>>
  /\ UNCHANGED notGraph

\* "Restore edges"
FindKRestore ==
  /\ fk.pc = "restore"
  /\ edges' = RestoreEdges(edges, fk.original_edges)
  /\ fk' = [fk EXCEPT !.pc = "record"]
  /\ UNCHANGED <<nodes, loaded, query, result>>
  /\ UNCHANGED notGraph

\* if result: append it and block its edges; else: break
FindKRecord ==
  /\ fk.pc = "record"
  /\ IF fk.res.found
     THEN fk' = [fk EXCEPT
                   !.paths = Append(fk.paths, fk.res),
                   !.blocked_edges = fk.blocked_edges \cup
                                       EdgesToBlock(edges, fk.res.segments),
                   !.i = fk.i + 1,
                   !.pc = IF fk.i + 1 < query.k THEN "block" ELSE "return"]
     ELSE fk' = [fk EXCEPT !.pc = "return"]
  /\ UNCHANGED <<nodes, edges, loaded, query, result>>
  /\ UNCHANGED notGraph

\* return sorted(paths, key=lambda x: x[1])
FindKReturn ==
  /\ fk.pc = "return"
  /\ result' = SortByRiskAsc(fk.paths)
  /\ fk' = [fk EXCEPT !.pc = "done"]
  /\ UNCHANGED <<nodes, edges, loaded, query>>
  /\ UNCHANGED notGraph

\* ------------------------------------------------------------------------
\* graph_utils.py: get_reachable_nodes
\* ------------------------------------------------------------------------
MaxHops == 2

\* max_risk of the queries, in twentieths: 0.65 and 1.55
MaxRiskChoices == {13, 31}


\* A stack discipline: the entry appended last
QueueLast(queue) == Len(queue)

\* queue.pop(0): the entry appended first
QueueHead(queue) == 1

\* The entries appended when only the edge risk is accumulated
ReachPushedEdgeRiskOnly(es, ns, cur, visited, max_risk, max_hops) ==
  LET nb == GetConnectedNodes(es, cur.node)
      ok == SelectSeq(nb, LAMBDA c :
              /\ c.to_node \notin visited
              /\ cur.risk + c.edge_risk <= max_risk
              /\ cur.hops + 1 <= max_hops)
  IN [i \in 1..Len(ok) |->
        [node |-> ok[i].to_node, risk |-> cur.risk + ok[i].edge_risk,
         hops |-> cur.hops + 1]]

\* The entries appended for the neighbours of the entry `cur`.
ReachPushed(es, ns, cur, visited, max_risk, max_hops) ==
  LET nb == GetConnectedNodes(es, cur.node)
      ok == SelectSeq(nb, LAMBDA c :
              /\ c.to_node \notin visited
              /\ cur.risk + c.edge_risk + NodeRiskOrZero(ns, c.to_node) <= max_risk
              /\ cur.hops + 1 <= max_hops)
  IN [i \in 1..Len(ok) |->
        [node |-> ok[i].to_node,
         risk |-> cur.risk + ok[i].edge_risk + NodeRiskOrZero(ns, ok[i].to_node),
         hops |-> cur.hops + 1]]

\* while queue: ...
RECURSIVE ReachLoop(_, _, _, _, _, _, _)
ReachLoop(es, ns, queue, visited, reachable, max_risk, max_hops) ==
  IF queue = <<>> THEN reachable
  ELSE LET i == QueueHead(queue)
           cur == queue[i]
           rest == RemoveAt(queue, i)
       IN IF cur.node \in visited \/ cur.hops > max_hops \/ cur.risk > max_risk
          THEN ReachLoop(es, ns, rest, visited, reachable, max_risk, max_hops)
          ELSE ReachLoop(es, ns,
                 rest \o ReachPushed(es, ns, cur, visited \cup {cur.node},
                                     max_risk, max_hops),
                 visited \cup {cur.node},
                 (cur.node :> [total_risk |-> cur.risk, hops |-> cur.hops])
                   @@ reachable,
                 max_risk, max_hops)

\* get_reachable_nodes(adapter, start_node, max_risk, max_hops):
\* node -> (total_risk, hops_needed)
GetReachableNodes(es, ns, start_node, max_risk, max_hops) ==
  ReachLoop(es, ns, <<[node |-> start_node, risk |-> 0, hops |-> 0]>>, {}, <<>>,
            max_risk, max_hops)

\* GraphUtils.get_reachable_nodes(adapter, start, max_risk, h) for every
\* hop budget h of 0..MaxHops on the same heatmap
ReachableQuery ==
  /\ loaded
  /\ query.op = "none"
  /\ \E s \in {1, 3}, m \in MaxRiskChoices :
       /\ query' = [op |-> "reachable", start_node |-> s, end_node |-> 0, k |-> 0]
       /\ result' = <<[max_risk |-> m,
                       by_hops |-> [h \in 0..MaxHops |->
                                      GetReachableNodes(edges, nodes, s, m, h)]]>>
  /\ UNCHANGED <<nodes, edges, loaded, fk>>
  /\ UNCHANGED notGraph

\* ------------------------------------------------------------------------
\* graph_utils.py: GraphUtils.analyze_route_safety
\* ------------------------------------------------------------------------
\* total_risk += segment_risk over the first n segments
RECURSIVE SumOverRisks(_, _)
SumOverRisks(segs, n) ==
  IF n = 0 THEN 0 ELSE SumOverRisks(segs, n - 1) + segs[n].risk

\* The first edge from -> to in dict order, or no edge.
FirstEdgeRisk(es, from_node, to_node) ==
  LET hits == {i \in 1..Len(es) :
                 es[i].from_node = from_node /\ es[i].to_node = to_node}
  IN IF hits = {} THEN 0
     ELSE es[CHOOSE i \in hits : \A j \in hits : i <= j].risk

\* One entry of `segments`; edge_id 0 stands for None.
AnalysisSegment(es, ns, from_node, to_node) ==
  [from_node |-> from_node, to_node |-> to_node,
   edge_id |-> FirstEdgeId(es, from_node, to_node),
   risk |-> FirstEdgeRisk(es, from_node, to_node) + NodeRiskOrZero(ns, to_node)]

\* if segment_risk > max_risk_value: the first segment of greatest risk,
\* none (0) when every segment has risk 0.
MaxRiskIndex(segs) ==
  IF \A i \in 1..Len(segs) : segs[i].risk = 0 THEN 0
  ELSE CHOOSE i \in 1..Len(segs) :
         /\ \A j \in 1..Len(segs) : segs[j].risk <= segs[i].risk
         /\ \A j \in 1..(i - 1) : segs[j].risk < segs[i].risk

\* The classification of avg_risk = total / count, risks in twentieths.
SafetyLevel(total, count) ==
  IF total < 4 * count THEN "EXCELLENT"
  ELSE IF total < 8 * count THEN "GOOD"
  ELSE IF total < 12 * count THEN "MODERATE"
  ELSE IF total < 16 * count THEN "RISKY"
  ELSE "DANGEROUS"

\* _get_recommendation(safety_level, avg_risk)
GetRecommendation(safety_level) ==
  CASE safety_level = "EXCELLENT" -> "Route is very safe. Standard precautions apply."
    [] safety_level = "GOOD" -> "Route is safe. Proceed with normal awareness."
    [] safety_level = "MODERATE" -> "Route has some mid-risk areas. Maintain vigilance."
    [] safety_level = "RISKY" -> "Route passes through high-risk areas. Enhanced security recommended."
    [] OTHER -> "Route is highly dangerous. Consider alternatives or police escort."

\* analyze_route_safety(adapter, node_path): kind is "raised" for an
\* exception, "error" for the dict {"error": "Invalid route"} and "analysis"
\* for the dict of metrics.  avg_risk is in thousandths: with one to three
\* segments total * 50 / count is never half way between two thousandths.
AnalyzeRouteSafety(es, ns, node_path) ==
  IF Len(node_path) < 2
  THEN [kind |-> "error", error |-> "Invalid route"]
  ELSE LET segments == [i \in 1..(Len(node_path) - 1) |->
                          AnalysisSegment(es, ns, node_path[i], node_path[i + 1])]
           count == Len(segments)
           total_risk == SumOverRisks(segments, count)
           m == MaxRiskIndex(segments)
           safety_level == SafetyLevel(total_risk, count)
       IN [kind |-> "analysis",
           path |-> node_path,
           segment_count |-> count,
           total_risk |-> total_risk,
           avg_risk |-> (total_risk * 100 + count) \div (2 * count),
           max_risk_segment |-> IF m = 0 THEN 0 ELSE segments[m].to_node,
           max_risk_value |-> IF m = 0 THEN 0 ELSE segments[m].risk,
           danger_count |-> Cardinality({i \in 1..count : segments[i].risk > 14}),
           safety_level |-> safety_level,
           segments |-> segments,
           recommendation |-> GetRecommendation(safety_level)]

\* Node paths handed to analyze_route_safety; 4 is no node of any heatmap.
AnalyzedPaths == {<<>>, <<1>>, <<1, 3>>, <<1, 2, 3>>, <<1, 4, 3>>, <<4, 2>>}

\* GraphUtils.analyze_route_safety(adapter, node_path)
AnalyzeQuery ==
  /\ loaded
  /\ query.op = "none"
  /\ \E p \in AnalyzedPaths :
       /\ query' = [op |-> "analyze", start_node |-> 0, end_node |-> 0, k |-> 0]
       /\ result' = <<[node_path |-> p,
                       res |-> AnalyzeRouteSafety(edges, nodes, p)]>>
  /\ UNCHANGED <<nodes, edges, loaded, fk>>
  /\ UNCHANGED notGraph

GraphNext ==
  \/ LoadHeatmap
  \/ DijkstraQuery
  \/ ReachableQuery
  \/ FindKStart
  \/ FindKBlock
  \/ FindKSearch
  \/ FindKRestore
  \/ FindKRecord
  \/ FindKReturn

\* ------------------------------------------------------------------------
\* threat_zones.py: ThreatZoneManager
\* ------------------------------------------------------------------------
\* zones: the zone dict in insertion order, each entry
\* [zone_id, latitude, radius_mm, threat_level].

\* buffer_km = 0.1 of validate_route_safety and filter_routes_by_safety
ZONE_BUFFER_MM == 100000

\* "1.0 if >2km away": min_dist / 2.0
SCORE_FULL_M == 2000

\* radius_map of create_from_incident
RadiusMapMm(level) ==
  CASE level = "CRITICAL" -> 1500000
    [] level = "HIGH" -> 1200000
    [] level = "MEDIUM" -> 800000
    [] level = "LOW" -> 500000
    [] OTHER -> 800000

AvoidLevels == {"CRITICAL", "HIGH", "MEDIUM"}

\* self.zones[zone.zone_id] = zone: a known key keeps its place
AddThreatZone(zs, zone) ==
  IF \E i \in 1..Len(zs) : zs[i].zone_id = zone.zone_id
  THEN [i \in 1..Len(zs) |-> IF zs[i].zone_id = zone.zone_id THEN zone ELSE zs[i]]
  ELSE Append(zs, zone)

CreateFromIncident(zs, inc) ==
  AddThreatZone(zs, [zone_id |-> inc.incident_id, latitude |-> inc.latitude,
                     radius_mm |-> RadiusMapMm(inc.threat_level),
                     threat_level |-> inc.threat_level])

\* for inc in incidents: ... starting from the zones held so far
RECURSIVE LoadFromIncidentsInto(_, _)
LoadFromIncidentsInto(zs, incs) ==
  IF incs = <<>> THEN [zones |-> zs, raised |-> FALSE]
  ELSE LET inc == Head(incs)
       IN IF inc.coords = "none" THEN LoadFromIncidentsInto(zs, Tail(incs))
          ELSE IF inc.coords = "bad" THEN [zones |-> zs, raised |-> TRUE]
          ELSE LoadFromIncidentsInto(CreateFromIncident(zs, inc), Tail(incs))

\* load_from_incidents(incidents): the loop adds to self.zones; float() of
\* a malformed coordinate raises and ends the call.
LoadFromIncidents(zs, incs) == LoadFromIncidentsInto(zs, incs)

\* haversine_distance on one meridian (R = 6371.0)
ZoneHaversineMm(lat1, lat2) == HAVERSINE_MM_PER_STEP * Abs(lat2 - lat1)

\* _distance_point_to_line_segment on one meridian (111.0 km per degree)
DistancePointToLineSegmentMm(p, lat1, lat2) ==
  LET y1 == lat1 * PLANAR_MM_PER_STEP
      y2 == lat2 * PLANAR_MM_PER_STEP
      py == p * PLANAR_MM_PER_STEP
      dy == y2 - y1
  IN IF dy = 0 THEN Abs(py - y1)
     ELSE \* t = ((py - y1) * dy) / (dy * dy) clamped to [0, 1], compared
          \* in grid steps
          LET closest == IF (p - lat1) * (lat2 - lat1) <= 0 THEN y1
                         ELSE IF (p - lat1) * (lat2 - lat1)
                                   >= (lat2 - lat1) * (lat2 - lat1) THEN y2
                         ELSE py
          IN Abs(py - closest)

\* line_segment_intersects_circle(lat1, lng, lat2, lng, circle, buffer_km)
LineSegmentIntersectsCircle(lat1, lat2, zone, buffer_mm) ==
  LET effective_radius == zone.radius_mm + buffer_mm
      start_dist == ZoneHaversineMm(lat1, zone.latitude)
      end_dist == ZoneHaversineMm(lat2, zone.latitude)
      lat_min == Min2(lat1, lat2)
      lat_max == Max2(lat1, lat2)
  IN IF start_dist <= effective_radius /\ end_dist <= effective_radius THEN TRUE
     ELSE IF /\ start_dist > effective_radius
             /\ end_dist > effective_radius
             \* lat_max < circle_lat_min or lat_min > circle_lat_max
             /\ \/ (zone.latitude - lat_max) * PLANAR_MM_PER_STEP > effective_radius
                \/ (lat_min - zone.latitude) * PLANAR_MM_PER_STEP > effective_radius
          THEN FALSE
     ELSE DistancePointToLineSegmentMm(zone.latitude, lat1, lat2) <= effective_radius

\* The (segment, zone) pairs in the order of the two nested loops.
SegmentZonePairs(coords, zs) ==
  LET n == IF Len(coords) = 0 THEN 0 ELSE Len(coords) - 1
      m == Len(zs)
  IN [k \in 1..(n * m) |->
        [seg |-> ((k - 1) \div m) + 1, zone |-> ((k - 1) % m) + 1]]

\* The same walk with no level left out
RouteIntersectsAnyLevel(coords, zs, buffer_mm, levels) ==
  LET pairs == SegmentZonePairs(coords, zs)
      hits == {k \in 1..Len(pairs) :
                 LineSegmentIntersectsCircle(coords[pairs[k].seg],
                                             coords[pairs[k].seg + 1],
                                             zs[pairs[k].zone], buffer_mm)}
  IN IF hits = {} THEN [intersects |-> FALSE, zone |-> 0]
     ELSE [intersects |-> TRUE,
           zone |-> pairs[CHOOSE k \in hits : \A o \in hits : k <= o].zone]

\* route_intersects_any_threat: (intersects, index of the zone or 0)
RouteIntersectsAnyThreat(coords, zs, buffer_mm, levels) ==
  LET pairs == SegmentZonePairs(coords, zs)
      hits == {k \in 1..Len(pairs) :
                 /\ zs[pairs[k].zone].threat_level \in levels
                 /\ LineSegmentIntersectsCircle(coords[pairs[k].seg],
                                                coords[pairs[k].seg + 1],
                                                zs[pairs[k].zone], buffer_mm)}
  IN IF hits = {} THEN [intersects |-> FALSE, zone |-> 0]
     ELSE [intersects |-> TRUE,
           zone |-> pairs[CHOOSE k \in hits : \A o \in hits : k <= o].zone]

\* get_closest_threat_to_route: found = FALSE stands for None
GetClosestThreatToRoute(coords, zs) ==
  LET pairs == SegmentZonePairs(coords, zs)
      d(k) == DistancePointToLineSegmentMm(zs[pairs[k].zone].latitude,
                                           coords[pairs[k].seg],
                                           coords[pairs[k].seg + 1])
  IN IF Len(pairs) = 0
     THEN [found |-> FALSE, zone_id |-> 0, min_distance_m |-> 0,
           inside_zone |-> FALSE]
     ELSE LET k == CHOOSE h \in 1..Len(pairs) :
                     /\ \A o \in 1..Len(pairs) : d(h) <= d(o)
                     /\ \A o \in 1..(h - 1) : d(o) > d(h)
              zone == zs[pairs[k].zone]
          IN [found |-> TRUE, zone_id |-> zone.zone_id,
              min_distance_m |-> RoundToMetres(Max2(0, d(k) - zone.radius_mm)),
              inside_zone |-> d(k) <= zone.radius_mm]

\* ------------------------------------------------------------------------
\* graph_utils.py: validate_route_safety, rank_routes_by_safety
\* ------------------------------------------------------------------------
\* safety_score = max(0, min(1, min_dist / 2.0)), kept in units of 0.0005
\* (min_dist in metres, capped); the final round(.., 3) of a value ending
\* in 5 depends on its binary representation and is not resolved here.
ValidateRouteSafety(coords, zs, buffer_mm) ==
  LET hit == RouteIntersectsAnyThreat(coords, zs, buffer_mm, AvoidLevels)
      closest == GetClosestThreatToRoute(coords, zs)
  IN [is_safe |-> IF closest.found
                  THEN ~closest.inside_zone /\ ~hit.intersects
                  ELSE TRUE,
      safety_score |-> IF closest.found
                       THEN Max2(0, Min2(SCORE_FULL_M, closest.min_distance_m))
                       ELSE SCORE_FULL_M,
      threat_intersections |-> IF hit.intersects THEN <<zs[hit.zone].zone_id>>
                               ELSE <<>>,
      closest_threat |-> closest]

SafetyMetrics(route, zs) ==
  IF route.geometry = <<>>
  THEN [is_safe |-> TRUE, safety_score |-> SCORE_FULL_M,
        threat_intersections |-> <<>>,
        closest_threat |-> [found |-> FALSE, zone_id |-> 0,
                            min_distance_m |-> 0, inside_zone |-> FALSE]]
  ELSE ValidateRouteSafety(route.geometry, zs, ZONE_BUFFER_MM)

\* ranked_routes.sort(key=safety_score, reverse=True): stable
RECURSIVE SortRankedDesc(_)
SortRankedDesc(s) ==
  IF s = <<>> THEN <<>>
  ELSE LET rest == SortRankedDesc(SubSeq(s, 1, Len(s) - 1))
           x == s[Len(s)]
           before == SelectSeq(rest, LAMBDA y :
                       y.safety_metrics.safety_score >= x.safety_metrics.safety_score)
           after == SelectSeq(rest, LAMBDA y :
                      y.safety_metrics.safety_score < x.safety_metrics.safety_score)
       IN before \o <<x>> \o after

RankAll(rs, zs) ==
  SortRankedDesc([i \in 1..Len(rs) |->
     [geometry |-> rs[i].geometry, duration |-> rs[i].duration,
      safety_metrics |-> SafetyMetrics(rs[i], zs)]])

\* keep_unsafe=True: the sorted list as it is
RankRoutesKeepingUnsafe(rs, zs) == RankAll(rs, zs)

\* rank_routes_by_safety(routes, manager, keep_unsafe=False)
RankRoutesBySafety(rs, zs) ==
  LET ranked == RankAll(rs, zs)
      safe == SelectSeq(ranked, LAMBDA r : r.safety_metrics.is_safe)
  IN IF safe # <<>> THEN safe ELSE ranked

\* filter_routes_by_safety(routes, strict_mode=True, buffer_km=0.1)
RouteKept(route, zs) ==
  \/ route.geometry = <<>>
  \/ ~RouteIntersectsAnyThreat(route.geometry, zs, ZONE_BUFFER_MM,
                               AvoidLevels).intersects

FilterRoutesBySafety(rs, zs) ==
  LET safe == SelectSeq(rs, LAMBDA r : RouteKept(r, zs))
  IN IF safe # <<>> THEN safe ELSE rs

\* ------------------------------------------------------------------------
\* Calls on the ThreatZoneManager
\* ------------------------------------------------------------------------
MaxBatch == 2

\* Incident records of a batch: with coordinates, without, or with a
\* latitude float() cannot convert.
ZoneIncidentChoices ==
  {[incident_id |-> id, coords |-> v.coords, latitude |-> v.latitude,
    threat_level |-> v.threat_level] :
     id \in {1, 2},
     v \in {[coords |-> "ok", latitude |-> 50, threat_level |-> "CRITICAL"],
            [coords |-> "ok", latitude |-> 300, threat_level |-> "LOW"],
            [coords |-> "none", latitude |-> 0, threat_level |-> "MEDIUM"],
            [coords |-> "bad", latitude |-> 0, threat_level |-> "HIGH"]}}

\* Route polylines handed to the ranking and the filter.
ZoneGeometries == {<<>>, <<0, 100>>, <<200, 250>>, <<260, 280>>}

NoCall == [op |-> "none", batch |-> <<>>, routes |-> <<>>,
           levels |-> {}, buffer_mm |-> 0]

ZoneInit ==
  /\ zones = <<>>
  /\ zcall = NoCall
  /\ load_raised = FALSE
  /\ zresult = <<>>

\* manager.load_from_incidents(batch)
LoadIncidents ==
  /\ zcall.op \in {"none", "load"}
  /\ \E batch \in SeqsUpTo(ZoneIncidentChoices, MaxBatch) :
       LET r == LoadFromIncidents(zones, batch)
       IN /\ zones' = r.zones
          /\ load_raised' = r.raised
          /\ zcall' = [NoCall EXCEPT !.op = "load", !.batch = batch]
  /\ UNCHANGED zresult
  /\ UNCHANGED notZone

\* GraphUtils.rank_routes_by_safety(routes, manager)
RankRoutes ==
  /\ zcall.op \in {"none", "load"}
  /\ \E gs \in SeqsUpTo(ZoneGeometries, MaxRoutes) :
       /\ zresult' = RankRoutesBySafety(ProviderRoutes(gs), zones)
       /\ zcall' = [NoCall EXCEPT !.op = "rank", !.routes = ProviderRoutes(gs)]
  /\ UNCHANGED <<zones, load_raised>>
  /\ UNCHANGED notZone

\* manager.filter_routes_by_safety(routes)
FilterRoutes ==
  /\ zcall.op \in {"none", "load"}
  /\ \E gs \in SeqsUpTo(ZoneGeometries, MaxRoutes) :
       /\ zresult' = FilterRoutesBySafety(ProviderRoutes(gs), zones)
       /\ zcall' = [NoCall EXCEPT !.op = "filter", !.routes = ProviderRoutes(gs)]
  /\ UNCHANGED <<zones, load_raised>>
  /\ UNCHANGED notZone

\* Single polylines handed to the route checks: no point, one point, a
\* segment through the zone at 50, one 32 m outside its radius, a distant
\* one, and two segments of which the first only touches the zone at 300.
ProbeGeometries ==
  {<<>>, <<50>>, <<0, 100>>, <<119, 130>>, <<200, 250>>, <<200, 290, 40>>}

\* threat_levels_to_avoid: None (all four levels) or the strict list
AllLevels == {"CRITICAL", "HIGH", "MEDIUM", "LOW"}

LevelChoices == {AllLevels, AvoidLevels}

\* GraphUtils.validate_route_safety(coordinates, manager)
ValidateRoute ==
  /\ zcall.op \in {"none", "load"}
  /\ \E g \in ProbeGeometries :
       /\ zresult' = <<ValidateRouteSafety(g, zones, ZONE_BUFFER_MM)>>
       /\ zcall' = [NoCall EXCEPT !.op = "validate", !.routes = ProviderRoutes(<<g>>),
                                  !.levels = AvoidLevels,
                                  !.buffer_mm = ZONE_BUFFER_MM]
  /\ UNCHANGED <<zones, load_raised>>
  /\ UNCHANGED notZone

\* manager.route_intersects_any_threat(coordinates, buffer_km, levels)
IntersectsQuery ==
  /\ zcall.op \in {"none", "load"}
  /\ \E g \in ProbeGeometries, levels \in LevelChoices,
        buffer_mm \in {0, ZONE_BUFFER_MM} :
       /\ zresult' = <<RouteIntersectsAnyThreat(g, zones, buffer_mm, levels)>>
       /\ zcall' = [NoCall EXCEPT !.op = "intersects",
                                  !.routes = ProviderRoutes(<<g>>),
                                  !.levels = levels, !.buffer_mm = buffer_mm]
  /\ UNCHANGED <<zones, load_raised>>
  /\ UNCHANGED notZone

\* manager.get_closest_threat_to_route(coordinates)
ClosestQuery ==
  /\ zcall.op \in {"none", "load"}
  /\ \E g \in ProbeGeometries :
       /\ zresult' = <<GetClosestThreatToRoute(g, zones)>>
       /\ zcall' = [NoCall EXCEPT !.op = "closest", !.routes = ProviderRoutes(<<g>>)]
  /\ UNCHANGED <<zones, load_raised>>
  /\ UNCHANGED notZone

ZoneNext ==
  \/ LoadIncidents
  \/ RankRoutes
  \/ FilterRoutes
  \/ ValidateRoute
  \/ IntersectsQuery
  \/ ClosestQuery

\* ------------------------------------------------------------------------
\* Specifications: one per component, each from the same initial state
\* ------------------------------------------------------------------------
\* ------------------------------------------------------------------------
\* heatmap_adapter.py: position lookup and get_interpolated_risk
\* ------------------------------------------------------------------------
\* Positions lie on the x axis (y = 0), so Position.distance_to is |dx|.
\* A risk value returned by the interpolation is the fraction num / den of
\* tenths.
MaxNodes == 2

MaxNeighbours == 2

\* Node records of a heatmap: two of them share position 0.
PositionedNodes ==
  {[has_position |-> TRUE, x |-> 0, risk |-> 2],
   [has_position |-> TRUE, x |-> 0, risk |-> 8],
   [has_position |-> TRUE, x |-> 3, risk |-> 8],
   [has_position |-> TRUE, x |-> 1, risk |-> 4],
   [has_position |-> FALSE, x |-> 0, risk |-> 6]}

QueryPositions == {0, 1, 3}

\* self.position_to_node_id[pos] = node_id: a position already in the
\* table keeps its place and takes the new node id.
RECURSIVE BuildPositionLookup(_, _, _)
BuildPositionLookup(ns, i, table) ==
  IF i > Len(ns) THEN table
  ELSE IF ~ns[i].has_position THEN BuildPositionLookup(ns, i + 1, table)
  ELSE IF \E j \in 1..Len(table) : table[j].x = ns[i].x
  THEN BuildPositionLookup(ns, i + 1,
         [j \in 1..Len(table) |->
            IF table[j].x = ns[i].x THEN [x |-> ns[i].x, node_id |-> i]
            ELSE table[j]])
  ELSE BuildPositionLookup(ns, i + 1, Append(table, [x |-> ns[i].x, node_id |-> i]))

\* distances_and_risks.sort(key=lambda x: x[0]): stable
RECURSIVE SortByDistance(_)
SortByDistance(s) ==
  IF s = <<>> THEN <<>>
  ELSE LET rest == SortByDistance(SubSeq(s, 1, Len(s) - 1))
           x == s[Len(s)]
           before == SelectSeq(rest, LAMBDA y : y.dist <= x.dist)
           after == SelectSeq(rest, LAMBDA y : y.dist > x.dist)
       IN before \o <<x>> \o after

RECURSIVE ProductOfSquares(_, _)
ProductOfSquares(s, skip) ==
  IF s = <<>> THEN 1
  ELSE (IF Len(s) = skip THEN 1 ELSE s[Len(s)].dist * s[Len(s)].dist)
         * ProductOfSquares(SubSeq(s, 1, Len(s) - 1), skip)

RECURSIVE SumOver(_, _)
SumOver(f, n) == IF n = 0 THEN 0 ELSE f[n] + SumOver(f, n - 1)

\* get_interpolated_risk(position, k)
GetInterpolatedRisk(table, ns, x, k) ==
  IF table = <<>> THEN [num |-> 5, den |-> 1]
  ELSE LET known == SelectSeq(table, LAMBDA e : GetNodeRisk(ns, e.node_id) # -1)
           distances_and_risks ==
             [i \in 1..Len(known) |->
                [dist |-> Abs(x - known[i].x),
                 risk |-> GetNodeRisk(ns, known[i].node_id)]]
           sorted == SortByDistance(distances_and_risks)
           nearest_k == SubSeq(sorted, 1, Min2(k, Len(sorted)))
       IN IF nearest_k = <<>> THEN [num |-> 5, den |-> 1]
          ELSE IF nearest_k[1].dist = 0 THEN [num |-> nearest_k[1].risk, den |-> 1]
          ELSE \* weights 1 / d^2 brought to the common denominator
               LET w == [i \in 1..Len(nearest_k) |-> ProductOfSquares(nearest_k, i)]
                   total_weight == SumOver(w, Len(w))
                   weighted_risk ==
                     SumOver([i \in 1..Len(w) |-> w[i] * nearest_k[i].risk], Len(w))
               IN \* min(1.0, max(0.0, weighted_risk / total_weight))
                  IF weighted_risk > 10 * total_weight THEN [num |-> 10, den |-> 1]
                  ELSE IF weighted_risk < 0 THEN [num |-> 0, den |-> 1]
                  ELSE [num |-> weighted_risk, den |-> total_weight]

NoInterpolation == [op |-> "none", x |-> 0, k |-> 0, result |-> [num |-> 0, den |-> 1]]

InterpInit ==
  /\ hm_nodes = <<>>
  /\ position_to_node_id = <<>>
  /\ iq = NoInterpolation

\* load_heatmap(heatmap_data): self.nodes and the position lookup table
LoadPositions ==
  /\ iq.op = "none"
  /\ hm_nodes = <<>>
  /\ \E ns \in SeqsUpTo(PositionedNodes, MaxNodes) :
       /\ ns # <<>>
       /\ hm_nodes' = ns
       /\ position_to_node_id' = BuildPositionLookup(ns, 1, <<>>)
  /\ UNCHANGED iq
  /\ UNCHANGED notInterp

\* adapter.get_interpolated_risk(Position(x, 0), k)
InterpolateQuery ==
  /\ iq.op = "none"
  /\ \E x \in QueryPositions, k \in 1..MaxNeighbours :
       iq' = [op |-> "interp", x |-> x, k |-> k,
              result |-> GetInterpolatedRisk(position_to_node_id, hm_nodes, x, k)]
  /\ UNCHANGED <<hm_nodes, position_to_node_id>>
  /\ UNCHANGED notInterp

InterpNext == LoadPositions \/ InterpolateQuery

\* ------------------------------------------------------------------------
\* road_graph.py: RoadGraph
\* ------------------------------------------------------------------------
\* rg.edges_dict is the dict in insertion order; rg.graph maps (from, to) to
\* the attributes of the DiGraph edge, risk = -1 standing for "no 'risk'
\* attribute".  The factor is an integer, risks are tenths and a cost is
\* kept in tenths of a distance unit: distance * (10 + factor * risk).
MaxRoadEdges == 2

\* risk_penalty_factor: float = 50.0
DEFAULT_PENALTY_FACTOR == 50

FactorChoices == {DEFAULT_PENALTY_FACTOR, 10}

RoadEdgeChoices ==
  {[edge_id |-> i, from_node |-> 1, to_node |-> 2, distance |-> d] :
     i \in {1, 2}, d \in {2, 3}}
  \cup {[edge_id |-> 2, from_node |-> 2, to_node |-> 1, distance |-> 2]}

\* What a HeatmapAdapter answers: get_node_risk / get_edge_risk by id,
\* an id outside the domain giving None.
HeatmapChoices ==
  {[node_risk |-> <<>>, edge_risk |-> <<>>],
   [node_risk |-> (1 :> 4) @@ (2 :> 2), edge_risk |-> <<>>],
   [node_risk |-> (1 :> 4), edge_risk |-> (1 :> 5)]}

\* RoadGraph(directed=True, risk_penalty_factor=50.0)
NewRoadGraph ==
  [risk_penalty_factor |-> DEFAULT_PENALTY_FACTOR, nodes_dict |-> {},
   edges_dict |-> <<>>, node_risks |-> <<>>, edge_risks |-> <<>>,
   graph |-> <<>>]

\* self.edges_dict[edge_id] = road_edge
PutEdge(ed, e) ==
  IF \E i \in 1..Len(ed) : ed[i].edge_id = e.edge_id
  THEN [i \in 1..Len(ed) |-> IF ed[i].edge_id = e.edge_id THEN e ELSE ed[i]]
  ELSE Append(ed, e)

\* add_edge: the DiGraph edge (from, to) gets distance and cost = distance;
\* attributes it already has and the call does not pass (risk) stay.
AddEdgeTo(st, e) ==
  LET key == <<e.from_node, e.to_node>>
      attrs == [edge_id |-> e.edge_id, distance |-> e.distance,
                cost |-> e.distance * 10,
                risk |-> IF key \in DOMAIN st.graph THEN st.graph[key].risk ELSE -1]
  IN [st EXCEPT !.edges_dict = PutEdge(st.edges_dict, e),
                !.graph = (key :> attrs) @@ st.graph]

\* _update_edge_cost(edge_id)
UpdateEdgeCost(st, edge_id) ==
  IF ~\E i \in 1..Len(st.edges_dict) : st.edges_dict[i].edge_id = edge_id
  THEN st
  ELSE LET edge == st.edges_dict[CHOOSE i \in 1..Len(st.edges_dict) :
                                   st.edges_dict[i].edge_id = edge_id]
           key == <<edge.from_node, edge.to_node>>
           heatmap_risk == IF edge_id \in DOMAIN st.edge_risks
                           THEN st.edge_risks[edge_id] ELSE 0
           adjusted_cost == edge.distance * (10 + st.risk_penalty_factor * heatmap_risk)
       IN [st EXCEPT !.graph =
             (key :> [st.graph[key] EXCEPT !.cost = adjusted_cost,
                                           !.risk = heatmap_risk]) @@ st.graph]

\* for edge_id in self.edges_dict: self._update_edge_cost(edge_id)
RECURSIVE UpdateAllFrom(_, _)
UpdateAllFrom(st, i) ==
  IF i > Len(st.edges_dict) THEN st
  ELSE UpdateAllFrom(UpdateEdgeCost(st, st.edges_dict[i].edge_id), i + 1)

\* update_risk_penalty_factor(factor)
UpdateRiskPenaltyFactorOf(st, factor) ==
  UpdateAllFrom([st EXCEPT !.risk_penalty_factor = factor], 1)

\* load_heatmap_risks, second loop: the risk of each edge, then its cost
RECURSIVE LoadEdgeRisksFrom(_, _, _)
LoadEdgeRisksFrom(st, hm, i) ==
  IF i > Len(st.edges_dict) THEN st
  ELSE LET edge == st.edges_dict[i]
           from_risk == IF edge.from_node \in DOMAIN st.node_risks
                        THEN st.node_risks[edge.from_node] ELSE 0
           to_risk == IF edge.to_node \in DOMAIN st.node_risks
                      THEN st.node_risks[edge.to_node] ELSE 0
           r == IF edge.edge_id \in DOMAIN hm.edge_risk
                THEN hm.edge_risk[edge.edge_id]
                ELSE (from_risk + to_risk) \div 2
           st1 == [st EXCEPT !.edge_risks = (edge.edge_id :> r) @@ st.edge_risks]
       IN LoadEdgeRisksFrom(UpdateEdgeCost(st1, edge.edge_id), hm, i + 1)

\* load_heatmap_risks(heatmap)
LoadHeatmapRisksInto(st, hm) ==
  LET known == st.nodes_dict \cap DOMAIN hm.node_risk
      st1 == [st EXCEPT !.node_risks =
                [n \in known |-> hm.node_risk[n]] @@ st.node_risks]
  IN LoadEdgeRisksFrom(st1, hm, 1)

\* import_from_dict, the edge loop
RECURSIVE ImportEdgesFrom(_, _, _)
ImportEdgesFrom(st, es, i) ==
  IF i > Len(es) THEN st
  ELSE LET e == [edge_id |-> es[i].edge_id, from_node |-> es[i].from_node,
                 to_node |-> es[i].to_node, distance |-> es[i].distance]
           st1 == AddEdgeTo(st, e)
           st2 == [st1 EXCEPT !.edge_risks = (e.edge_id :> es[i].risk) @@ st1.edge_risks]
       IN ImportEdgesFrom(UpdateEdgeCost(st2, e.edge_id), es, i + 1)

\* import_from_dict(data): clear, import the nodes and the edges, and last
\* self.risk_penalty_factor = data.get("risk_penalty_factor", 50.0)
ImportFromDictInto(st, data) ==
  LET cleared == [st EXCEPT !.nodes_dict = DOMAIN data.nodes,
                            !.node_risks = data.nodes,
                            !.edges_dict = <<>>, !.edge_risks = <<>>,
                            !.graph = <<>>]
      filled == ImportEdgesFrom(cleared, data.edges, 1)
  IN [filled EXCEPT !.risk_penalty_factor = data.risk_penalty_factor]

\* Dictionaries handed to import_from_dict
ImportEdgeChoices ==
  {[edge_id |-> e.edge_id, from_node |-> e.from_node, to_node |-> e.to_node,
    distance |-> e.distance, risk |-> r] :
     e \in {c \in RoadEdgeChoices : c.distance = 2 /\ c.from_node = c.edge_id},
     r \in {0, 5}}

RoadInit == rg = NewRoadGraph

\* graph.add_node(RoadNode(...))
AddNode ==
  /\ \E n \in {1, 2} : rg' = [rg EXCEPT !.nodes_dict = @ \cup {n}]
  /\ UNCHANGED notRoad

\* graph.add_edge(RoadEdge(...))
AddEdge ==
  /\ \E e \in RoadEdgeChoices :
       /\ (Len(rg.edges_dict) < MaxRoadEdges
              \/ \E i \in 1..Len(rg.edges_dict) : rg.edges_dict[i].edge_id = e.edge_id)
       /\ rg' = AddEdgeTo(rg, e)
  /\ UNCHANGED notRoad

\* graph.load_heatmap_risks(heatmap)
LoadHeatmapRisks ==
  /\ \E hm \in HeatmapChoices : rg' = LoadHeatmapRisksInto(rg, hm)
  /\ UNCHANGED notRoad

\* graph.update_risk_penalty_factor(factor)
UpdateRiskPenaltyFactor ==
  /\ \E f \in FactorChoices : rg' = UpdateRiskPenaltyFactorOf(rg, f)
  /\ UNCHANGED notRoad

\* graph.import_from_dict(data)
ImportFromDict ==
  /\ \E es \in SeqsUpTo(ImportEdgeChoices, MaxRoadEdges), f \in FactorChoices :
       rg' = ImportFromDictInto(rg, [nodes |-> (1 :> 4) @@ (2 :> 2),
                                     edges |-> es,
                                     risk_penalty_factor |-> f])
  /\ UNCHANGED notRoad

RoadNext ==
  \/ AddNode
  \/ AddEdge
  \/ LoadHeatmapRisks
  \/ UpdateRiskPenaltyFactor
  \/ ImportFromDict

\* ------------------------------------------------------------------------
\* threat_zones.py: line_segment_intersects_circle off one meridian
\* ------------------------------------------------------------------------
\* Points are [lat, lng]: lat in whole degrees, lng in steps of 0.0001
\* degree. Distances are in decametres (10 m), compared by their squares.

\* math.cos(math.radians(lat)) in units of 0.0001
CosE4(lat) ==
  CASE lat = 58 -> 5299
    [] lat = 59 -> 5150
    [] lat = 60 -> 5000

\* 111.0 km per degree, in decametres
PLANAR_DAM_PER_DEGREE == 11100

\* R = 6371.0 km: 111.195 km per degree, in decametres
HAVERSINE_DAM_PER_DEGREE == 11120

\* lng * 111.0 * math.cos(math.radians(lat_center))
PlanarX(lng, lat_center) == (lng * 111 * CosE4(lat_center)) \div 1000000

\* lat * 111.0
PlanarY(lat) == lat * PLANAR_DAM_PER_DEGREE

\* haversine_distance squared. The points of the model are two degrees of
\* latitude apart or on one parallel, and at most 0.05 degree of longitude
\* apart: the great-circle distance is R * dlat along a meridian and
\* R * dlng * cos(lat) along a parallel up to a relative error below 1e-7,
\* and the two components add as squares. The constants are rounded up.
HaversineSq(a, b) ==
  LET mid == (a.lat + b.lat) \div 2
      north == Abs(a.lat - b.lat) * HAVERSINE_DAM_PER_DEGREE
      east == (((Abs(a.lng - b.lng) * 1112) \div 10) * CosE4(mid)) \div 1000000
  IN north * north + east * east

\* d * num / den for 0 < num < den, the quotient kept to 1/50000
ScaleByFraction(d, num, den) ==
  LET k == den \div 50000 + 1
  IN (d * (num \div k)) \div (den \div k)

\* _distance_point_to_line_segment(point, line_start, line_end), squared
DistancePointToLineSegmentSq(point, line_start, line_end) ==
  LET lat_center == (line_start.lat + line_end.lat) \div 2
      x1 == PlanarX(line_start.lng, lat_center)
      y1 == PlanarY(line_start.lat)
      x2 == PlanarX(line_end.lng, lat_center)
      y2 == PlanarY(line_end.lat)
      px == PlanarX(point.lng, lat_center)
      py == PlanarY(point.lat)
      dx == x2 - x1
      dy == y2 - y1
      num == (px - x1) * dx + (py - y1) * dy
      den == dx * dx + dy * dy
  IN IF dx = 0 /\ dy = 0
     THEN (px - x1) * (px - x1) + (py - y1) * (py - y1)
     ELSE \* t = num / den clamped to [0, 1]
          LET closest_x == IF num <= 0 THEN x1
                           ELSE IF num >= den THEN x2
                           ELSE x1 + ScaleByFraction(dx, num, den)
              closest_y == IF num <= 0 THEN y1
                           ELSE IF num >= den THEN y2
                           ELSE y1 + ScaleByFraction(dy, num, den)
          IN (px - closest_x) * (px - closest_x)
               + (py - closest_y) * (py - closest_y)

\* line_segment_intersects_circle(lat1, lng1, lat2, lng2, circle, buffer_km)
LineSegmentIntersectsCircleAt(p1, p2, circle, buffer_dam) ==
  LET effective_radius == circle.radius_dam + buffer_dam
      r2 == effective_radius * effective_radius
      centre == [lat |-> circle.latitude, lng |-> circle.longitude]
      start_dist == HaversineSq(p1, centre)
      end_dist == HaversineSq(p2, centre)
      lat_min == Min2(p1.lat, p2.lat)
      lat_max == Max2(p1.lat, p2.lat)
      lng_min == Min2(p1.lng, p2.lng)
      lng_max == Max2(p1.lng, p2.lng)
      \* degrees of longitude as decametres on the circle's parallel,
      \* times 1e6
      east(dlng) == dlng * 111 * CosE4(circle.latitude)
  IN IF start_dist <= r2 /\ end_dist <= r2 THEN TRUE
     ELSE IF /\ start_dist > r2
             /\ end_dist > r2
             /\ \/ (circle.latitude - lat_max) * PLANAR_DAM_PER_DEGREE > effective_radius
                \/ (lat_min - circle.latitude) * PLANAR_DAM_PER_DEGREE > effective_radius
                \/ east(circle.longitude - lng_max) > effective_radius * 1000000
                \/ east(lng_min - circle.longitude) > effective_radius * 1000000
          THEN FALSE
     ELSE DistancePointToLineSegmentSq(centre, p1, p2) <= r2

\* End points of the probed segments
GeoPoints == [lat : {58, 60}, lng : {0, 80, 265}]

\* Circles of create_from_incident at 60 N, 0 E
GeoCircles ==
  {[latitude |-> 60, longitude |-> 0, threat_level |-> l,
    radius_dam |-> RadiusMapMm(l) \div 10000] : l \in {"CRITICAL", "LOW"}}

\* buffer_km: 0.0 and 0.1
GeoBuffers == {0, 10}

NoSegmentProbe ==
  [op |-> "none", p1 |-> [lat |-> 60, lng |-> 0], p2 |-> [lat |-> 60, lng |-> 0],
   circle |-> [latitude |-> 60, longitude |-> 0, threat_level |-> "LOW",
               radius_dam |-> 50],
   buffer_dam |-> 0, result |-> FALSE]

GeoInit == gq = NoSegmentProbe

\* manager.line_segment_intersects_circle(lat1, lng1, lat2, lng2, circle, b)
SegmentProbe ==
  /\ gq.op = "none"
  /\ \E a \in GeoPoints, b \in GeoPoints, c \in GeoCircles, buf \in GeoBuffers :
       gq' = [op |-> "intersects", p1 |-> a, p2 |-> b, circle |-> c,
              buffer_dam |-> buf,
              result |-> LineSegmentIntersectsCircleAt(a, b, c, buf)]
  /\ UNCHANGED notGeo

GeoNext == SegmentProbe

\* ------------------------------------------------------------------------
\* A second caller on the same adapter instance
\* ------------------------------------------------------------------------
\* cq: the query of the second caller; `at` is the position find_k_safest_paths
\* had reached on the shared adapter when the query ran, `seen` the edge map
\* the query read.
NoConcurrentQuery ==
  [op |-> "none", start_node |-> 0, end_node |-> 0, at |-> "idle",
   seen |-> <<>>, res |-> NoPath(0)]

ConcurrentPairs == {<<1, 3>>, <<2, 3>>}

\* Edges of the shared heatmap: the direct edge 1 -> 3 and the detour over 2
SharedEdgeChoices ==
  {e \in EdgeChoices :
     \/ e.from_node = 1 /\ e.to_node = 3
     \/ e.risk = 0 /\ <<e.from_node, e.to_node>> \in {<<1, 2>>, <<2, 3>>}}

SharedNodeTable == (1 :> [risk |-> 4]) @@ (2 :> [risk |-> 2]) @@ (3 :> [risk |-> 6])

ConcInit == cq = NoConcurrentQuery

\* load_heatmap(heatmap_data) of the shared adapter
LoadSharedHeatmap ==
  /\ ~loaded
  /\ \E cs \in SeqsUpTo(SharedEdgeChoices, MaxEdges) :
       edges' = HeatmapEdges(cs)
  /\ nodes' = SharedNodeTable
  /\ loaded' = TRUE
  /\ UNCHANGED <<query, result, fk>>
  /\ UNCHANGED notGraph

\* GraphUtils.dijkstra_safest_path(adapter, start, end) by another caller:
\* it reads adapter.edges as they are at that moment.
ConcurrentDijkstra ==
  /\ loaded
  /\ cq.op = "none"
  /\ \E q \in ConcurrentPairs :
       cq' = [op |-> "dijkstra", start_node |-> q[1], end_node |-> q[2],
              at |-> fk.pc, seen |-> edges,
              res |-> DijkstraSafestPath(edges, nodes, q[1], q[2],
                                         MAX_ITERATIONS)]
  /\ UNCHANGED notConc

ConcNext ==
  \/ LoadSharedHeatmap
  \/ FindKStart
  \/ FindKBlock
  \/ FindKSearch
  \/ FindKRestore
  \/ FindKRecord
  \/ FindKReturn
  \/ ConcurrentDijkstra

Init ==
  /\ RouteInit
  /\ GraphInit
  /\ ZoneInit
  /\ InterpInit
  /\ RoadInit
  /\ ConcInit
  /\ GeoInit

SpecGeo == Init /\ [][GeoNext]_vars

SpecConc == Init /\ [][ConcNext]_vars

SpecRoad == Init /\ [][RoadNext]_vars

SpecInterp == Init /\ [][InterpNext]_vars

SpecRoute == Init /\ [][RouteNext]_vars

SpecGraph == Init /\ [][GraphNext]_vars

SpecZones == Init /\ [][ZoneNext]_vars

\* ------------------------------------------------------------------------
\* Capped searches, route analyses and reachability under several risk
\* budgets, on heatmaps over the chain 3 -> 1 -> 2 -> 3 and 1 -> 3
\* ------------------------------------------------------------------------
\* The risk budgets a query is repeated with: 0.4, 0.65 and 1.55
RiskBudgets == {8, 13, 31}

\* Edges of the heatmaps of these queries: the chain 3 -> 1 -> 2 -> 3 and
\* the shortcut 1 -> 3, with both risks on every pair but 2 -> 3.
ChainEdgeChoices ==
  {e \in EdgeChoices :
     \/ <<e.from_node, e.to_node>> \in {<<3, 1>>, <<1, 2>>, <<1, 3>>}
     \/ e.risk = 0 /\ <<e.from_node, e.to_node>> = <<2, 3>>}

\* load_heatmap(heatmap_data)
LoadChainHeatmap ==
  /\ ~loaded
  /\ \E cs \in SeqsUpTo(ChainEdgeChoices, MaxEdges), ns \in NodeTables :
       /\ edges' = HeatmapEdges(cs)
       /\ nodes' = ns
  /\ loaded' = TRUE
  /\ UNCHANGED <<query, result, fk>>
  /\ UNCHANGED notGraph

\* GraphUtils.get_reachable_nodes(adapter, start, r, h) for every risk
\* budget r and every hop budget h on the same heatmap
ReachableBudgets ==
  /\ loaded
  /\ query.op = "none"
  /\ \E s \in {1, 3} :
       /\ query' = [op |-> "budgets", start_node |-> s, end_node |-> 0, k |-> 0]
       /\ result' = <<[by_risk |-> [r \in RiskBudgets |->
                                      [h \in 0..MaxHops |->
                                         GetReachableNodes(edges, nodes, s, r, h)]]]>>
  /\ UNCHANGED <<nodes, edges, loaded, fk>>
  /\ UNCHANGED notGraph

QueriesNext ==
  \/ LoadChainHeatmap
  \/ ReachableBudgets
  \/ DijkstraCapped
  \/ AnalyzeQuery

SpecQueries == Init /\ [][QueriesNext]_vars

Next ==
  \/ RouteNext
  \/ GraphNext
  \/ ZoneNext
  \/ InterpNext
  \/ RoadNext
  \/ ConcNext
  \/ GeoNext
  \/ QueriesNext

Spec == Init /\ [][Next]_vars

\* ------------------------------------------------------------------------
\* Claims about the graph searches
\* ------------------------------------------------------------------------
\* Least accumulated risk (in twentieths) of a directed path from s to v
\* with at most k edges, computed from the edge list alone; -1 if none.
RECURSIVE BestWithin(_, _, _, _, _)
BestWithin(es, ns, s, v, k) ==
  IF k = 0 THEN (IF v = s THEN 0 ELSE -1)
  ELSE LET prev == BestWithin(es, ns, s, v, k - 1)
           into == {i \in 1..Len(es) : es[i].to_node = v}
           upto == [i \in into |-> BestWithin(es, ns, s, es[i].from_node, k - 1)]
           cands == {upto[i] + es[i].risk + NodeRiskOrZero(ns, v) :
                       i \in {j \in into : upto[j] >= 0}}
                    \cup (IF prev >= 0 THEN {prev} ELSE {})
       IN IF cands = {} THEN -1
          ELSE CHOOSE c \in cands : \A d \in cands : c <= d

MinRisk(es, ns, s, e) == BestWithin(es, ns, s, e, Len(es))

\* `used` names, hop by hop, edges of es that lead from each node of the
\* path to the next one.
IsDirectedPath(es, path, used) ==
  /\ Len(used) = Len(path) - 1
  /\ \A i \in 1..Len(used) :
        \E j \in 1..Len(es) :
           /\ es[j].id = used[i]
           /\ es[j].from_node = path[i]
           /\ es[j].to_node = path[i + 1]

RECURSIVE AccumulatedRisk(_, _, _)
AccumulatedRisk(es, ns, used) ==
  IF used = <<>> THEN 0
  ELSE LET e == EdgeById(es, used[Len(used)])
       IN AccumulatedRisk(es, ns, SubSeq(used, 1, Len(used) - 1))
            + e.risk + NodeRiskOrZero(ns, e.to_node)

\* C6: for start # end (and fewer pops than max_iterations)
\* dijkstra_safest_path returns None iff no directed path exists; otherwise
\* its node sequence is a directed path from start to end whose accumulated
\* blended risk is the least over all directed paths.
C6_DijkstraSafestDirectedPath ==
  (query.op = "dijkstra" /\ query.start_node # query.end_node) =>
     LET r == result[1]
         best == MinRisk(edges, nodes, query.start_node, query.end_node)
     IN /\ r.pops < MAX_ITERATIONS
        /\ r.found <=> best >= 0
        /\ r.found =>
             /\ r.path[1] = query.start_node
             /\ r.path[Len(r.path)] = query.end_node
             /\ IsDirectedPath(edges, r.path, r.used)
             /\ AccumulatedRisk(edges, nodes, r.used) = r.total_risk
             /\ r.total_risk = best

C6_Witness ==
  /\ query.op = "dijkstra"
  /\ query.start_node = 1 /\ query.end_node = 3
  /\ result[1].found
  /\ result[1].path = <<1, 2, 3>>
  /\ \E j \in 1..Len(edges) : edges[j].from_node = 1 /\ edges[j].to_node = 3

\* C7: with start = end the result is ([start], 0.0, []) and the graph is
\* not examined (no queue pop), also for an id that is no node of the graph.
C7_SelfPathWithoutSearch ==
  (query.op = "dijkstra" /\ query.start_node = query.end_node) =>
     /\ result[1].found
     /\ result[1].path = <<query.start_node>>
     /\ result[1].total_risk = 0
     /\ result[1].segments = <<>>
     /\ result[1].pops = 0

C7_Witness ==
  /\ query.op = "dijkstra"
  /\ query.start_node = query.end_node
  /\ query.start_node \notin DOMAIN nodes
  /\ \A j \in 1..Len(edges) :
        edges[j].from_node # query.start_node /\ edges[j].to_node # query.start_node
  /\ edges # <<>>
  /\ result[1].path = <<query.start_node>>

\* C8 (as claimed): find_k_safest_paths returns at most k paths, in
\* non-decreasing total-risk order, and no two returned paths traverse the
\* same edge, parallel edges allowed.
C8_KPathsSortedAndEdgeDisjoint ==
  (query.op = "find_k" /\ fk.pc = "done") =>
     /\ Len(result) <= query.k
     /\ \A i \in 1..(Len(result) - 1) :
           result[i].total_risk <= result[i + 1].total_risk
     /\ \A i, j \in 1..Len(result) :
           i < j => Range(result[i].used) \cap Range(result[j].used) = {}

\* C9: once the edges of an iteration are restored, and when the call
\* returns, the edge map holds the same ids with the same data as before
\* the call.
C9_EdgeMapRestored ==
  (fk.pc \in {"record", "return", "done"}) => Range(edges) = Range(fk.edges0)

C9_Witness ==
  /\ fk.pc = "done"
  /\ fk.i >= 2
  /\ fk.blocked_edges # {}
  /\ edges # fk.edges0
  /\ Range(edges) = Range(fk.edges0)

\* ------------------------------------------------------------------------
\* Claims about the threat-zone store and the route ranking
\* ------------------------------------------------------------------------
InOutput(route) ==
  \E j \in 1..Len(zresult) :
     zresult[j].geometry = route.geometry /\ zresult[j].duration = route.duration

C10_LoadReplacesAllZones ==
  (zcall.op = "load" /\ ~load_raised) =>
     /\ {zones[i].zone_id : i \in 1..Len(zones)}
          = {zcall.batch[i].incident_id :
               i \in {j \in 1..Len(zcall.batch) : zcall.batch[j].coords = "ok"}}
     /\ \A i, j \in 1..Len(zones) : zones[i].zone_id = zones[j].zone_id => i = j

\* C11 (as claimed): load_from_incidents skips an incident whose
\* coordinates are missing or malformed, never raises, and still creates
\* the zone of every other incident of the batch.
C11_BadRecordsSkipped ==
  zcall.op = "load" =>
     /\ ~load_raised
     /\ \A i \in 1..Len(zcall.batch) :
           zcall.batch[i].coords = "ok" =>
              \E j \in 1..Len(zones) :
                 zones[j].zone_id = zcall.batch[i].incident_id

\* Some segment of the polyline intersects (with the buffer) a stored zone
\* whose level is in levels.
SegmentHitsZone(coords, zs, buffer_mm, levels) ==
  \E i \in 1..(Len(coords) - 1) : \E j \in 1..Len(zs) :
     /\ zs[j].threat_level \in levels
     /\ LineSegmentIntersectsCircle(coords[i], coords[i + 1], zs[j], buffer_mm)

\* C12 (as claimed): under validate_route_safety (buffer 0.1 km) a route
\* with a segment intersecting a CRITICAL, HIGH or MEDIUM zone gets
\* is_safe = False and safety_score 0.0.
C12_IntersectingRouteScoresZero ==
  (zcall.op = "validate" /\
     SegmentHitsZone(zcall.routes[1].geometry, zones, ZONE_BUFFER_MM, AvoidLevels))
    => /\ ~zresult[1].is_safe
       /\ zresult[1].safety_score = 0

\* C13 (as claimed): the interpolation at the position of a node of the
\* loaded heatmap returns exactly that node's risk, for every k >= 1, also
\* when several nodes share the position.
C13_InterpolationAtNodeIsNodeRisk ==
  iq.op = "interp" =>
     \A n \in 1..Len(hm_nodes) :
        (hm_nodes[n].has_position /\ hm_nodes[n].x = iq.x) =>
           iq.result = [num |-> hm_nodes[n].risk, den |-> 1]

\* get_edge_cost / get_edge_distance / get_edge_risk of the DiGraph edge
GetEdgeCost(key) == rg.graph[key].cost

GetEdgeDistance(key) == rg.graph[key].distance

GetEdgeRisk(key) == IF rg.graph[key].risk = -1 THEN 0 ELSE rg.graph[key].risk

\* C14 (as claimed): after any sequence of add_edge, load_heatmap_risks,
\* update_risk_penalty_factor and import_from_dict the cost of every edge
\* is distance * (1 + risk_penalty_factor * risk) for the current factor
\* and the edge's recorded risk (0 when none was loaded).
C14_EdgeCostFollowsFormula ==
  \A key \in DOMAIN rg.graph :
     GetEdgeCost(key)
       = GetEdgeDistance(key) * (10 + rg.risk_penalty_factor * GetEdgeRisk(key))

\* C15: with graph, start and max_risk fixed, every node reported under a
\* hop budget h1 is reported under every budget h2 >= h1, with a risk that
\* is not greater.
C15_ReachableMonotoneInHops ==
  query.op = "reachable" =>
     \A h1, h2 \in 0..MaxHops :
        h1 <= h2 =>
           \A n \in DOMAIN result[1].by_hops[h1] :
              /\ n \in DOMAIN result[1].by_hops[h2]
              /\ result[1].by_hops[h2][n].total_risk
                   <= result[1].by_hops[h1][n].total_risk

C15_Witness ==
  /\ query.op = "reachable"
  /\ 3 \in DOMAIN result[1].by_hops[1]
  /\ 3 \in DOMAIN result[1].by_hops[2]
  /\ 2 \in DOMAIN result[1].by_hops[2]
  /\ 3 \notin DOMAIN result[1].by_hops[0]
  /\ \E i, j \in 1..Len(edges) :
        /\ edges[i].from_node = 2 /\ edges[i].to_node = 3
        /\ edges[j].from_node = 1 /\ edges[j].to_node = 2

\* Segment i of the polyline intersects zone j, whose level is in levels.
SegmentMeetsZone(coords, i, zs, j, buffer_mm, levels) ==
  /\ zs[j].threat_level \in levels
  /\ LineSegmentIntersectsCircle(coords[i], coords[i + 1], zs[j], buffer_mm)

\* C16: route_intersects_any_threat answers (True, z) iff some segment
\* intersects a stored zone whose level is in levels, z being a zone of such
\* a level that intersects the first segment with an intersection; else
\* (False, None).
C16_IntersectsIffSomeSegmentHits ==
  zcall.op = "intersects" =>
     LET g == zcall.routes[1].geometry
         b == zcall.buffer_mm
         lv == zcall.levels
         r == zresult[1]
         hit(i) == \E j \in 1..Len(zones) : SegmentMeetsZone(g, i, zones, j, b, lv)
     IN /\ r.intersects <=> SegmentHitsZone(g, zones, b, lv)
        /\ ~r.intersects => r.zone = 0
        /\ r.intersects =>
              /\ r.zone \in 1..Len(zones)
              /\ \E i \in 1..(Len(g) - 1) :
                    /\ SegmentMeetsZone(g, i, zones, r.zone, b, lv)
                    /\ \A o \in 1..(i - 1) : ~hit(o)

C16_Witness ==
  /\ zcall.op = "intersects"
  /\ zcall.levels = AvoidLevels
  /\ Len(zcall.routes[1].geometry) = 3
  /\ zresult[1].intersects
  /\ zones[zresult[1].zone].threat_level = "CRITICAL"
  /\ ~SegmentMeetsZone(zcall.routes[1].geometry, 1, zones, zresult[1].zone,
                       zcall.buffer_mm, AllLevels)
  /\ \E j \in 1..Len(zones) :
        /\ zones[j].threat_level = "LOW"
        /\ SegmentMeetsZone(zcall.routes[1].geometry, 1, zones, j,
                            zcall.buffer_mm, AllLevels)

\* C17: get_closest_threat_to_route returns None only for an empty store:
\* for a polyline of one or more points and a store of one or more zones it
\* returns a record naming a stored zone.
C17_ClosestFoundWheneverZonesExist ==
  (/\ zcall.op = "closest"
   /\ Len(zcall.routes[1].geometry) >= 1
   /\ zones # <<>>)
     => /\ zresult[1].found
        /\ \E j \in 1..Len(zones) : zones[j].zone_id = zresult[1].zone_id

\* The edge map as load_heatmap built it
FullEdgeMap == IF fk.pc = "idle" THEN edges ELSE fk.edges0

\* The answer to the second caller's query on the full edge map
SerialAnswer ==
  DijkstraSafestPath(FullEdgeMap, nodes, cq.start_node, cq.end_node,
                     MAX_ITERATIONS)

\* C18: a dijkstra_safest_path that runs before find_k_safest_paths starts or
\* after it has returned sees the full edge map and gives the full graph's
\* answer; an answer that is worse than the full graph's (no path, or a
\* riskier one) comes from a query that ran while edges were blocked and
\* read an edge map missing them.
C18_OnlyInterleavedQueriesSeeBlockedEdges ==
  cq.op = "dijkstra" =>
     /\ cq.at \in {"idle", "done"} =>
           /\ Range(cq.seen) = Range(FullEdgeMap)
           /\ cq.res.found = SerialAnswer.found
           /\ cq.res.total_risk = SerialAnswer.total_risk
     /\ (cq.res.found # SerialAnswer.found
           \/ cq.res.total_risk # SerialAnswer.total_risk) =>
           /\ cq.at \in {"search", "restore"}
           /\ Range(cq.seen) # Range(FullEdgeMap)
           /\ Range(cq.seen) \subseteq Range(FullEdgeMap)
           /\ SerialAnswer.found
           /\ cq.res.found => cq.res.total_risk > SerialAnswer.total_risk

\* A query during the blocking returns a riskier path than the full graph has
C18_Witness ==
  /\ cq.op = "dijkstra"
  /\ cq.at \in {"search", "restore"}
  /\ cq.res.found
  /\ SerialAnswer.found
  /\ cq.res.total_risk > SerialAnswer.total_risk

\* A query during the blocking finds no path although the full graph has one
C18_NoPathSeen ==
  /\ cq.op = "dijkstra"
  /\ cq.at \in {"search", "restore"}
  /\ ~cq.res.found
  /\ SerialAnswer.found

\* The end point p of a probed segment is strictly inside the circle's own
\* radius (haversine distance to the centre)
StrictlyInside(p, circle) ==
  HaversineSq(p, [lat |-> circle.latitude, lng |-> circle.longitude])
    < circle.radius_dam * circle.radius_dam

\* C19: for every zone, every buffer >= 0 and every segment with an end
\* point strictly inside the zone's radius, line_segment_intersects_circle
\* returns True.
C19_EndPointInsideMeansIntersects ==
  (/\ gq.op = "intersects"
   /\ StrictlyInside(gq.p1, gq.circle) \/ StrictlyInside(gq.p2, gq.circle))
     => gq.result

\* Distances (mm) between the vertices of a route and the incidents that
\* have coordinates
VertexDistances(coords, incs) ==
  {HaversineMm(coords[i], incs[j].latitude) :
     i \in 1..Len(coords), j \in {h \in 1..Len(incs) : incs[h].has_coords}}

\* What the point-proximity policy asks of the result r for a route and a
\* list of incidents
PointPolicyHolds(r, coords, incs) ==
  LET ds == VertexDistances(coords, incs)
      closest == CHOOSE d \in ds : \A o \in ds : d <= o
      closest_m == (closest + 500) \div 1000
  IN IF \E d \in ds : d <= POINT_BUFFER_MM
     THEN /\ ~r.is_safe
          /\ r.safety_score = 0
          /\ r.reason = "threat_intersection_point"
          /\ \E i \in 1..Len(coords), j \in 1..Len(incs) :
                /\ incs[j].has_coords
                /\ incs[j].incident_id = r.threat_id
                /\ HaversineMm(coords[i], incs[j].latitude) = r.distance_mm
                /\ r.distance_mm <= POINT_BUFFER_MM
     ELSE /\ r.is_safe
          /\ r.safety_score =
                IF ds = {} \/ closest_m >= 3000 THEN 1000
                ELSE IF (closest_m + 1) \div 3 < 100 THEN 100
                ELSE (closest_m + 1) \div 3

C20_FloorScore ==
  /\ evaluated
  /\ \E i \in 1..Len(safe_routes) :
        /\ safe_routes[i].safety_score = 100
        /\ safe_routes[i].threat_info.distance_mm > POINT_BUFFER_MM
        /\ safe_routes[i].threat_info.distance_mm < 300000
  /\ \E j \in 1..Len(incidents) : ~incidents[j].has_coords

\* A candidate whose closest incident is 3 km or more away scores 1.0
C20_FarIncident ==
  /\ evaluated
  /\ \E i \in 1..Len(routes) :
        LET r == CalculateRouteRisk(routes[i].geometry, incidents)
        IN /\ routes[i].geometry # <<>>
           /\ r.is_safe
           /\ r.safety_score = 1000
           /\ r.distance_mm >= 3000000

\* ------------------------------------------------------------------------
\* Claims about the detour search
\* ------------------------------------------------------------------------
\* The n-th provider request of the detour search went to the n-th waypoint
\* of the order threat / clearance 0.2, 0.5, 1.0 km / bearing 0, 45, .., 315.
NthWaypointRequested ==
  via_requests > 0 =>
     LET n == via_requests
         t == ((n - 1) \div 24) + 1
         x == (((n - 1) % 24) \div 8) + 1
         b == ((n - 1) % 8) + 1
     IN /\ t <= Len(nearby_threats)
        /\ last_via.threat = nearby_threats[t].incident_id
        /\ last_via.offset_mm =
              ThreatRadiiMm(nearby_threats[t].threat_level) + 50000
                + <<200000, 500000, 1000000>>[x]
        /\ last_via.bearing = 45 * (b - 1)

\* The alternatives of the waypoint that ended the search are taken in
\* returned order: the answer is the first one evaluated safe.
FirstSafeAlternativeTaken ==
  LET ok == {i \in 1..Len(detour_alts) : detour_alts[i]}
      detour == response.kind = "ok" /\ response.routing_mode = "SAFE_VIA_DETOUR"
  IN /\ detour_alts # <<>> => rpc = "done" /\ detour
     /\ detour =>
           /\ safe_alt_seen
           /\ response.route.duration \in ok
           /\ \A i \in ok : response.route.duration <= i

\* One pass of the search is one provider request, and the search either
\* ends or moves to the next waypoint; after the end no request is issued.
OneRequestPerWaypoint ==
  /\ rpc = "detour" =>
        /\ via_requests' = via_requests + 1
        /\ rpc' = "done" \/ (rpc' = "detour" /\ cursor' = cursor + 1)
        /\ safe_alt_seen' => rpc' = "done"
  /\ rpc = "done" => via_requests' = via_requests

\* C21: the detour search tries its candidates in one fixed order (threats
\* in list order, clearances 0.2, 0.5, 1.0 km, bearings 0..315, the
\* provider's alternatives in returned order), stops at the first
\* alternative evaluated safe, issues no provider request after it, and
\* terminates after at most 24 provider requests per nearby threat.
C21_DetourSearchOrderAndBound ==
  /\ [](/\ NthWaypointRequested
        /\ FirstSafeAlternativeTaken
        /\ via_requests <= 24 * Len(nearby_threats)
        /\ rpc = "detour" => ENABLED DetourRequest)
  /\ [][OneRequestPerWaypoint]_vars

\* A search that went past the first threat's 24 waypoints and stopped at a
\* waypoint whose second alternative was the first safe one
C21_Witness ==
  /\ rpc = "done"
  /\ response.kind = "ok"
  /\ response.routing_mode = "SAFE_VIA_DETOUR"
  /\ via_requests > 24
  /\ detour_alts = <<FALSE, TRUE>>
  /\ response.route.duration = 2

\* A search that tried all 48 waypoints of two nearby threats in vain
C21_AllWaypointsTried ==
  /\ rpc = "done"
  /\ response.kind = "no_safe"
  /\ Len(nearby_threats) = 2
  /\ via_requests = 48

\* ------------------------------------------------------------------------
\* Claims about the iteration cap of dijkstra_safest_path
\* ------------------------------------------------------------------------
\* The answer to the capped query with the default cap
UncappedAnswer ==
  DijkstraSafestPath(edges, nodes, query.start_node, query.end_node, 1000)

\* C22: dijkstra_safest_path makes at most max_iterations pops, pops of
\* already finalized nodes included; when the cap is reached before the
\* destination is popped it returns None as for an unreachable destination,
\* even if a path exists; otherwise the cap changes nothing.
C22_IterationCapGivesNoPath ==
  query.op = "capped" =>
     LET cap == result[1].max_iterations
         r == result[1].res
     IN /\ r.pops <= cap
        /\ IF UncappedAnswer.pops <= cap
           THEN r = UncappedAnswer
           ELSE /\ r.pops = cap
                /\ ~r.found
                /\ r.path = <<>> /\ r.segments = <<>> /\ r.total_risk = 0

\* The cap 3 cuts a search off whose path 1, 2, 3 needs a fourth pop
\* because node 2 was pushed twice and popped again after it was finalized
C22_Witness ==
  /\ query.op = "capped"
  /\ result[1].max_iterations = 3
  /\ ~result[1].res.found
  /\ result[1].res.pops = 3
  /\ UncappedAnswer.found
  /\ UncappedAnswer.path = <<1, 2, 3>>
  /\ UncappedAnswer.pops = 4

\* ------------------------------------------------------------------------
\* Claims about get_reachable_nodes
\* ------------------------------------------------------------------------
\* Blended risk (in twentieths) of traversing the edge e
BlendedRisk(e) == e.risk + (IF e.to_node \in DOMAIN nodes THEN nodes[e.to_node].risk ELSE 0)

\* Accumulated blended risks of the directed walks of exactly k edges from
\* s to v
RECURSIVE WalkRisks(_, _, _)
WalkRisks(s, v, k) ==
  IF k = 0 THEN (IF v = s THEN {0} ELSE {})
  ELSE UNION {{r + BlendedRisk(edges[i]) : r \in WalkRisks(s, edges[i].from_node, k - 1)} :
                i \in {j \in 1..Len(edges) : edges[j].to_node = v}}

\* What holds of the answer R to get_reachable_nodes(s, m, h)
ReachableEntriesWitnessed(R, s, m, h) ==
  /\ s \in DOMAIN R
  /\ R[s] = [total_risk |-> 0, hops |-> 0]
  /\ \A n \in DOMAIN R :
        /\ R[n].total_risk <= m
        /\ R[n].hops \in 0..h
        /\ R[n].total_risk \in WalkRisks(s, n, R[n].hops)
        \* the entry was appended when a recorded node was dequeued
        /\ n # s =>
              \E i \in 1..Len(edges) :
                 /\ edges[i].to_node = n
                 /\ edges[i].from_node \in DOMAIN R
                 /\ R[edges[i].from_node].hops + 1 = R[n].hops
                 /\ R[edges[i].from_node].total_risk + BlendedRisk(edges[i])
                       = R[n].total_risk
  \* first in, first out: an entry appended for n is dequeued before any
  \* entry of more hops
  /\ \A i \in 1..Len(edges) :
        LET p == edges[i].from_node
        IN (/\ p \in DOMAIN R
            /\ R[p].total_risk + BlendedRisk(edges[i]) <= m
            /\ R[p].hops + 1 <= h)
              => /\ edges[i].to_node \in DOMAIN R
                 /\ R[edges[i].to_node].hops <= R[p].hops + 1

\* C23: every entry node -> (risk, hops) of get_reachable_nodes is witnessed
\* by a directed path from start with exactly `hops` edges and that
\* accumulated blended risk, within max_risk and max_hops; a node is
\* recorded once, at its first dequeue in FIFO order, and keeps that entry
\* when a cheaper path to it is dequeued later.
C23_ReachableEntriesAreFirstDequeued ==
  query.op = "reachable" =>
     \A h \in 0..MaxHops :
        ReachableEntriesWitnessed(result[1].by_hops[h], query.start_node,
                                  result[1].max_risk, h)

\* Node 3 is recorded over the direct edge although the walk over node 2 is
\* cheaper and within both budgets
C23_Witness ==
  /\ query.op = "reachable"
  /\ query.start_node = 1
  /\ 3 \in DOMAIN result[1].by_hops[2]
  /\ result[1].by_hops[2][3].hops = 1
  /\ \E r \in WalkRisks(1, 3, 2) : r < result[1].by_hops[2][3].total_risk

\* C24: every node to which some directed path from start has at most
\* max_hops edges and accumulated blended risk <= max_risk is a key of the
\* result of get_reachable_nodes(start, max_risk, max_hops).
C24_AllNodesWithinBudgetFound ==
  query.op = "reachable" =>
     \A h \in 0..MaxHops : \A v \in {1, 2, 3} :
        (\E k \in 0..h : \E r \in WalkRisks(query.start_node, v, k) :
            r <= result[1].max_risk)
          => v \in DOMAIN result[1].by_hops[h]

\* The risk record of a node, 0 when the node has none.
RecordedRisk(v) == IF v \in DOMAIN nodes THEN nodes[v].risk ELSE 0

NotInGraph(v) ==
  /\ v \notin DOMAIN nodes
  /\ \A i \in 1..Len(edges) : edges[i].from_node # v /\ edges[i].to_node # v

\* C26 (as claimed): analyze_route_safety on a path that names a node id
\* not present in the graph does not return a safety analysis of that path.
C26_UnknownNodeIsHardFailure ==
  (query.op = "analyze"
     /\ \E i \in 1..Len(result[1].node_path) : NotInGraph(result[1].node_path[i])
     /\ Len(result[1].node_path) >= 2)
    => result[1].res.kind = "raised"

\* C27 (as claimed): with graph, start and max_hops fixed, every node
\* reported reachable with max_risk = r1 is reported reachable with every
\* max_risk r2 >= r1.
C27_ReachableMonotoneInRisk ==
  query.op = "budgets" =>
     \A r1, r2 \in RiskBudgets : \A h \in 0..MaxHops :
        r1 <= r2 =>
           DOMAIN result[1].by_risk[r1][h] \subseteq DOMAIN result[1].by_risk[r2][h]

\* Some vertex of the polyline lies within radius + buffer of the centre of
\* a stored zone whose level is checked.
VertexInsideZone(coords, zs, buffer_mm, levels) ==
  \E i \in 1..Len(coords) : \E j \in 1..Len(zs) :
     /\ zs[j].threat_level \in levels
     /\ ZoneHaversineMm(coords[i], zs[j].latitude) <= zs[j].radius_mm + buffer_mm

\* C28 (as claimed): route_intersects_any_threat reports an intersection for
\* every route of one or more vertices that has a vertex within
\* radius_km + buffer_km of the centre of a stored zone of a checked level.
C28_VertexInsideZoneIntersects ==
  (zcall.op = "intersects"
     /\ Len(zcall.routes[1].geometry) >= 1
     /\ VertexInsideZone(zcall.routes[1].geometry, zones, zcall.buffer_mm,
                         zcall.levels))
    => zresult[1].intersects

\* C29 (as claimed): on a route with coordinates validate_route_safety
\* (buffer 0.1 km) reports is_safe = True iff route_intersects_any_threat
\* with buffer 0.1 km and the levels CRITICAL, HIGH, MEDIUM is False, the
\* test by which filter_routes_by_safety keeps a route; and is_safe = False
\* comes with a non-empty threat_intersections list.
C29_EvaluatorsAgree ==
  (zcall.op = "validate" /\ zcall.routes[1].geometry # <<>>) =>
     LET g == zcall.routes[1].geometry
     IN /\ zresult[1].is_safe <=>
              ~RouteIntersectsAnyThreat(g, zones, ZONE_BUFFER_MM, AvoidLevels).intersects
        /\ zresult[1].is_safe <=> RouteKept(zcall.routes[1], zones)
        /\ ~zresult[1].is_safe => zresult[1].threat_intersections # <<>>

\* C30 (as claimed): in a result of dijkstra_safest_path each segment's
\* edge_id names an edge of the graph from the segment's from_node to its
\* to_node whose risk is the edge risk the segment's risk was computed
\* from, also when several edges join the same ordered pair of nodes.
C30_SegmentEdgeIdNamesUsedEdge ==
  (query.op = "dijkstra" /\ result[1].found) =>
     \A i \in 1..Len(result[1].segments) :
        LET seg == result[1].segments[i]
        IN /\ \E j \in 1..Len(edges) : edges[j].id = seg.edge_id
           /\ EdgeById(edges, seg.edge_id).from_node = seg.from_node
           /\ EdgeById(edges, seg.edge_id).to_node = seg.to_node
           /\ seg.risk = EdgeById(edges, seg.edge_id).risk + RecordedRisk(seg.to_node)

====
